---- MODULE Spec2Model ----
(***************************************************************************)
(* Model of the fetch / cache / throttle engine of jira-log-split:         *)
(*   - JiraApiService.processQueueWithAdaptiveConcurrency (the wave loop),  *)
(*     with updateAdaptiveConcurrency and isThrottleError;                  *)
(*   - IssueProviderService range cache (mergeRanges, subtractRanges,       *)
(*     getIssuesByActivity, getIssuesByActivityStream).                     *)
(***************************************************************************)
EXTENDS Integers, Sequences, FiniteSets, TLC

(***************************************************************************)
(* Bounds of the model.                                                    *)
(***************************************************************************)
MaxTasks == 4
MaxThrottles == 3
MaxDay == 2
TicksPerDay == 2
NumIssues == 2
MaxCallThrottles == 1
MaxCalls == 2
MaxRangeDay == 4
MaxRanges == 2
MaxCalendarDay == 5
MaxPages == 3
MaxKeys == 3
MaxApiCalls == 1
MaxBatchKeys == 5
MaxEntries == 2
MaxWorklogCalls == 3

Ticks == TicksPerDay .. ((MaxDay + 1) * TicksPerDay - 1)
Keys == 1 .. NumIssues

(* d.toISOString().split("T")[0] *)
toIsoDay(t) == t \div TicksPerDay
prevDayIso(iso) == iso - 1
nextDayIso(iso) == iso + 1

(* the periods a caller asks for: start <= end *)
Periods == {p \in [start : Ticks, end : Ticks] : p.start <= p.end}

(* the page sizes (maxResults) the server answers with *)
PageSizes == {1, 2}

(* what a detail record says about the user: the tick of the user's activity
   on the issue, here the last tick of a day, or 0 when the user has none *)
Acts == {0} \cup {t \in Ticks : (t + 1) % TicksPerDay = 0}
Absent == 0 - 1

(* start concurrencies handed to processQueueWithAdaptiveConcurrency *)
StartConcurrencies == {0, 2, 3, 100}

Max(a, b) == IF a >= b THEN a ELSE b
Min(a, b) == IF a <= b THEN a ELSE b

(***************************************************************************)
(* Errors a task factory can reject with.  _request throws                 *)
(* Error(`Jira API request failed: ${status} ${statusText}${details}`):    *)
(* status is the HTTP status, text tells whether the rest of the message   *)
(* (statusText, details) contains the substring "429" or "503".            *)
(***************************************************************************)
NoErr == [status |-> 0, text |-> FALSE]
Errors == { [status |-> 429, text |-> FALSE],
            [status |-> 503, text |-> FALSE],
            [status |-> 500, text |-> FALSE],
            [status |-> 400, text |-> TRUE] }

(* the errors the requests of a provider call fail with: one throttle, one fatal *)
PErrors == { [status |-> 429, text |-> FALSE], [status |-> 500, text |-> FALSE] }

isThrottleError(err) ==
    IF err = NoErr THEN FALSE
    ELSE err.status = 429 \/ err.status = 503 \/ err.text

(* ADAPTIVE_THROTTLE_BACKOFF_RATIO = 0.75 as the fraction BackoffNum/BackoffDen *)
BackoffNum == 3
BackoffDen == 4

(* mutant: backs off by half instead of by the configured ratio *)
ReducedConcurrency_half(c) == Max(1, c \div 2)

(* mutant: a throttled wave raises the concurrency *)
ReducedConcurrency_grow(c) == c + 1

(* Math.max(1, Math.floor(concurrency * ADAPTIVE_THROTTLE_BACKOFF_RATIO)) *)
ReducedConcurrency(c) == Max(1, (c * BackoffNum) \div BackoffDen)

(* mutant: the guaranteed decrement without the floor at 1 *)
NextConcurrency_noFloor(c) ==
    IF ReducedConcurrency(c) = c THEN c - 1 ELSE ReducedConcurrency(c)

(* const next = reduced === concurrency ? Math.max(1, concurrency - 1) : reduced *)
NextConcurrency(c) ==
    IF ReducedConcurrency(c) = c THEN Max(1, c - 1) ELSE ReducedConcurrency(c)

VARIABLES
    (* ---- one run of processQueueWithAdaptiveConcurrency ---- *)
    taskCount,      \* taskFactories.length
    startConcurrency,
    qpc,            \* "loop" | "wave" | "returned" | "threw"
    pending,        \* pending: number[]
    concurrency,
    hadThrottle,
    results,        \* results[idx]
    batch,          \* the wave spliced off pending
    hasOnItem,      \* whether the caller passed onItem
    outcome,        \* per task: "idle" | "running" | "item" (awaiting onItem) | "ok" | "err"
    itemCalls,      \* per task: number of onItem invocations
    taskErr,        \* per task: the error its last execution rejected with
    execCount,      \* per task: number of times its factory was invoked
    succCount,      \* per task: number of executions that resolved
    throttles,      \* number of throttle failures so far in the run
    thrown,         \* the error the run rejected with
    ret,            \* the value the run resolved with
    (* ---- SettingsService 'adaptiveConcurrencyByHost' for this host ---- *)
    settings,       \* "ok" | "absent" | "throws"
    saved,          \* map[host]; 0 when no value is saved
    (* ---- IssueProviderService: the range cache ---- *)
    fetchedRanges,      \* merged list of [start, end] ISO days
    openEndedStartISO,  \* 0 for null
    allFetchedIssues,   \* the cached records, in Map insertion order
    (* ---- IssueProviderService: the call in progress (or the last one) ---- *)
    ppc,            \* "idle" | "first" | "page0" | "pages" | "join" | "detail" | "merge"
    mode,           \* "minimal" | "pipelined" (getIssues) | "stream" (getIssuesByActivityStream)
    period,         \* the requested period, in ticks
    todo,           \* the deltas the loop does not skip
    di,             \* index into todo of the delta being fetched
    jql,            \* [lo, hi]: updated >= lo (AND updated < hi when hi # 0)
    queries,        \* the phase-1 queries issued by the call
    pages,          \* the phase-1 pages of the current query, as the server cuts them
    pageDetail,     \* per page: state of its fetchIssuesDetailedByKeys call
    pageRun,        \* per page: targetConcurrency, concurrency and hadThrottle of that call
    promiseOrder,   \* pageDetailPromises: the pages in the order their promises were pushed
    runRecs,        \* per key: the detail record received for it in this delta, or Absent
    newlyFetched,   \* newlyFetchedIssues / fetchedForCache
    accumulator,    \* the sorted list of the streaming variant
    updates,        \* number of onUpdate deliveries
    progressCalls,  \* number of onProgress deliveries
    totalBatches,
    processedBatches,
    lastProgress,   \* the ProgressSnapshot last handed to onProgress by the call
    lastUpdate,     \* the list last handed to onUpdate by the call
    phase1Done,     \* phase1Done of getIssuesByActivityStream
    avgMeasured,    \* whether avgSecondsPerBatch holds a measured number (not null)
    requests,       \* number of search requests issued by the call
    fatalSeen,      \* a request of the call failed and was not retried
    callThrottles,  \* throttle failures in the call
    lowestReduced,  \* lowest reduced concurrency persisted during the call, 0 when none
    callStatus,     \* "none" | "resolved" | "rejected"
    callResult,     \* the list the call resolved with
    preRanges,      \* fetchedRanges when the call started
    preOpen,        \* openEndedStartISO when the call started
    calls,          \* number of calls made so far
    (* ---- the static range helpers of IssueProviderService, applied to arguments ---- *)
    argUniverse,    \* subtractRanges: the universe argument
    argCovered,     \* subtractRanges: the covered argument; mergeRanges: the ranges argument
    gaps,           \* what subtractRanges(argUniverse, argCovered) returned
    mergedOnce,     \* what mergeRanges(argCovered) returned
    mergedTwice,    \* what mergeRanges(mergedOnce) returned
    applied,        \* the helper calls made: subset of {"subtract", "merge", "remerge"}
    (* ---- JiraApiService: one call of a phase method ---- *)
    op,             \* "none" | "minimal" | "paged" | "detailed"
    jpc,            \* "idle" | "first" | "run" | "done" | "failed"
    optConcurrency, \* options.concurrency of fetchIssuesDetailedByKeys; Absent when not given
    initialConcurrency, \* what getStartingConcurrencyInfo returned to the call; 0 before it is read
    targetConcurrency,  \* the concurrency the call hands to the queue processor; 0 before
    savedBefore,    \* the value saved for the host when the call started
    jcalls,         \* number of phase-method calls made so far
    keyCount,       \* keys.length of fetchIssuesDetailedByKeys; the keys are 1 .. keyCount
    optBatchSize,   \* options.batchSize, in units of 1/BatchSizeDen; Absent when not given
    batches,        \* batches: string[][], the chunks the call cut the keys into
    (* ---- fetchIssuesDetailedByKeys: the task of each batch, request by request ---- *)
    hasOnBatch,     \* whether the caller passed options.onBatch
    chunkPc,        \* per batch: "idle" | "loop" | "emit" | "emitted" | "done" | "failed"
    chunkStartAt,   \* per batch: startAt of the attempt in progress
    chunkCollected, \* per batch: collected of the attempt in progress (or of the last one)
    chunkTotal,     \* per batch: total of the attempt; Absent for null
    chunkRequests,  \* per batch: requests sent by the attempt
    onBatchCalls,   \* per batch: number of onBatch invocations in the call
    emitted,        \* per batch: the list last handed to onBatch
    (* ---- the search endpoint as the detail requests see it ---- *)
    srvKeys,        \* the keys that match an issue
    srvCap,         \* the most issues one response holds
    srvDeclaresTotal, \* whether responses carry a numeric total
    srvMode,        \* "paged": honours startAt | "repeat": answers every request from offset 0
    (* ---- fetchIssues / fetchIssuesMinimal / fetchIssuesMinimalPaged: the page plan ---- *)
    firstLen,       \* firstIssues.length
    respTotal,      \* first.total; Absent when the response has none
    respMaxResults, \* first.maxResults; Absent when the response has none
    starts,         \* starts: number[], the offsets of the pages after the first
    allPages,       \* all: the offsets of the pages pushed to it, in the order pushed
    (* ---- WorklogSubmissionService ---- *)
    wpc,            \* "idle" | "submit" | "retry": the method that is running
    schedule,       \* the entries of the schedule in the order Object.entries yields them
    startHourUTC,   \* options.startHourUTC of the submitSchedule call
    entryIdx,       \* position of the loop in the schedule or in pending
    successes,
    failures,
    remaining,      \* remaining: PendingItem[] of retryPending
    pendingItems,   \* this.pending
    pendingBefore,  \* this.pending when the running or last call started
    attempts,       \* the positions the call has attempted, each with its outcome
    submitResult,   \* what the last call returned, and which method it was
    logged,         \* the worklogs Jira has accepted
    accepted,       \* every schedule entry a submitSchedule call has attempted
    wcalls          \* calls made so far

qvars == << taskCount, startConcurrency, hasOnItem, qpc, pending, concurrency,
            hadThrottle, results, batch, outcome, itemCalls, taskErr, execCount,
            succCount, throttles, thrown, ret >>
svars == << settings, saved >>
rvars == << fetchedRanges, openEndedStartISO, allFetchedIssues >>
cvars == << mode, period, todo, preRanges, preOpen, calls >>
dvars == << di, jql, queries, pages >>
fvars == << pageDetail, pageRun, promiseOrder, runRecs, newlyFetched, accumulator >>
ovars == << updates, progressCalls, totalBatches, processedBatches, lastProgress, lastUpdate,
           phase1Done, avgMeasured >>
hvars == << requests, fatalSeen, callThrottles, lowestReduced >>
evars == << ppc, callStatus, callResult >>
pvars == << rvars, cvars, dvars, fvars, ovars, hvars, evars >>
avars == << argUniverse, argCovered, gaps, mergedOnce, mergedTwice, applied >>
kvars == << chunkPc, chunkStartAt, chunkCollected, chunkTotal, chunkRequests,
           onBatchCalls, emitted >>
zvars == << hasOnBatch, srvKeys, srvCap, srvDeclaresTotal, srvMode >>
gvars == << firstLen, respTotal, respMaxResults, starts, allPages >>
wvars == << wpc, schedule, startHourUTC, entryIdx, successes, failures, remaining,
           pendingItems, pendingBefore, attempts, submitResult, logged, accepted, wcalls >>
jvars == << op, jpc, optConcurrency, initialConcurrency, targetConcurrency, savedBefore, jcalls,
           keyCount, optBatchSize, batches, kvars, zvars, wvars, gvars >>
vars == << qvars, svars, pvars, avars, jvars >>

Tasks == 1 .. taskCount

(* the value the k-th execution of task i resolves with *)
Val(i, k) == [task |-> i, attempt |-> k]
NoValue == [task |-> 0, attempt |-> 0]
NoThrown == [task |-> 0, attempt |-> 0, err |-> NoErr]
NoRet == [results |-> << >>, finalConcurrency |-> 0, hadThrottle |-> FALSE, set |-> FALSE]

RECURSIVE Range(_)
Range(s) == IF s = << >> THEN {} ELSE {Head(s)} \cup Range(Tail(s))

(* first n elements of s *)
Take(s, n) == SubSeq(s, 1, n)
Drop(s, n) == SubSeq(s, n + 1, Len(s))

(***************************************************************************)
(* updateAdaptiveConcurrency(newValue): best-effort write of               *)
(* max(1, floor(newValue)) for the host.                                   *)
(***************************************************************************)
updateAdaptiveConcurrency(newValue) ==
    IF settings = "ok" THEN saved' = Max(1, newValue) ELSE saved' = saved

(***************************************************************************)
(* processQueueWithAdaptiveConcurrency                                     *)
(***************************************************************************)
(* the locals of a run over n task factories entered with start concurrency c *)
RunState(n, c, cb) ==
    [ taskCount |-> n, startConcurrency |-> c, hasOnItem |-> cb, qpc |-> "loop",
      pending |-> [i \in 1 .. n |-> i], concurrency |-> Max(1, c),
      hadThrottle |-> FALSE, results |-> [i \in 1 .. n |-> NoValue],
      batch |-> << >>, outcome |-> [i \in 1 .. n |-> "idle"],
      itemCalls |-> [i \in 1 .. n |-> 0], taskErr |-> [i \in 1 .. n |-> NoErr],
      execCount |-> [i \in 1 .. n |-> 0], succCount |-> [i \in 1 .. n |-> 0],
      throttles |-> 0, thrown |-> NoThrown, ret |-> NoRet ]

QStateIs(r) ==
    /\ taskCount = r.taskCount
    /\ startConcurrency = r.startConcurrency
    /\ hasOnItem = r.hasOnItem
    /\ qpc = r.qpc
    /\ pending = r.pending
    /\ concurrency = r.concurrency
    /\ hadThrottle = r.hadThrottle
    /\ results = r.results
    /\ batch = r.batch
    /\ outcome = r.outcome
    /\ itemCalls = r.itemCalls
    /\ taskErr = r.taskErr
    /\ execCount = r.execCount
    /\ succCount = r.succCount
    /\ throttles = r.throttles
    /\ thrown = r.thrown
    /\ ret = r.ret

(* the run is entered: the assignments of lines 338-341 *)
QBegin(r) ==
    /\ taskCount' = r.taskCount
    /\ startConcurrency' = r.startConcurrency
    /\ hasOnItem' = r.hasOnItem
    /\ qpc' = r.qpc
    /\ pending' = r.pending
    /\ concurrency' = r.concurrency
    /\ hadThrottle' = r.hadThrottle
    /\ results' = r.results
    /\ batch' = r.batch
    /\ outcome' = r.outcome
    /\ itemCalls' = r.itemCalls
    /\ taskErr' = r.taskErr
    /\ execCount' = r.execCount
    /\ succCount' = r.succCount
    /\ throttles' = r.throttles
    /\ thrown' = r.thrown
    /\ ret' = r.ret

(* no run of the queue processor is in progress *)
NoRun == [RunState(0, 0, FALSE) EXCEPT !.qpc = "idle"]

QInit ==
    \E n \in 0 .. MaxTasks : \E c \in StartConcurrencies : \E cb \in BOOLEAN :
        QStateIs(RunState(n, c, cb))

(* ETA_INITIAL_SECONDS_PER_BATCH: imported from core/constants, which does not
   define it in this source tree; a positive number of seconds *)
EtaInitialSecondsPerBatch == 10

(* etaSeconds: null *)
Null == 0 - 1

(* { processedBatches, totalBatches, remainingBatches, etaSeconds } with
   remainingBatches = Math.max(0, totalBatches - processedBatches) *)
Snapshot(processed, total, eta) ==
    [processedBatches |-> processed, totalBatches |-> total,
     remainingBatches |-> Max(0, total - processed), etaSeconds |-> eta]

(* the snapshot of the first page and of processBatch while phase1Done is false:
   etaSeconds = remainingBatches * ETA_INITIAL_SECONDS_PER_BATCH *)
BaselineSnapshot(processed, total) ==
    Snapshot(processed, total, Max(0, total - processed) * EtaInitialSecondsPerBatch)

(* an etaSeconds computed from the clock: remainingBatches * avgSecondsPerBatch,
   smoothed or not; its value is not followed, only that it is a measured one *)
Measured == 0 - 2

(* the snapshot of processBatch once phase1Done is true: a measured ETA when the
   average per batch is a positive number, else null *)
MeasuredSnapshot(processed, total, avg) ==
    Snapshot(processed, total, IF avg THEN Measured ELSE Null)

(* the closing snapshot: etaSeconds = remainingBatches === 0 ? 0 :
   avgSecondsPerBatch != null ? remainingBatches * avgSecondsPerBatch : null *)
FinalSnapshot(processed, total) ==
    Snapshot(processed, total,
             IF Max(0, total - processed) = 0 THEN 0
             ELSE IF avgMeasured THEN Measured ELSE Null)

NoProgress == Snapshot(0, 0, Null)

(* a new IssueProviderService: empty range cache, no call made yet *)
NoRecs == [k \in Keys |-> Absent]
NoJql == [lo |-> 0, hi |-> 0]

PInit ==
    /\ fetchedRanges = << >>
    /\ openEndedStartISO = 0
    /\ allFetchedIssues = << >>
    /\ ppc = "idle"
    /\ mode = "minimal"
    /\ period = [start |-> TicksPerDay, end |-> TicksPerDay]
    /\ todo = << >>
    /\ di = 0
    /\ jql = NoJql
    /\ queries = << >>
    /\ pages = << >>
    /\ pageDetail = << >>
    /\ pageRun = << >>
    /\ promiseOrder = << >>
    /\ runRecs = NoRecs
    /\ newlyFetched = << >>
    /\ accumulator = << >>
    /\ updates = 0
    /\ progressCalls = 0
    /\ totalBatches = 0
    /\ processedBatches = 0
    /\ lastProgress = NoProgress
    /\ phase1Done = FALSE
    /\ avgMeasured = FALSE
    /\ lastUpdate = << >>
    /\ requests = 0
    /\ fatalSeen = FALSE
    /\ callThrottles = 0
    /\ lowestReduced = 0
    /\ callStatus = "none"
    /\ callResult = << >>
    /\ preRanges = << >>
    /\ preOpen = 0
    /\ calls = 0

SInit ==
    /\ settings \in {"ok", "absent", "throws"}
    /\ saved = 0

(* no range helper has been applied *)
NoRange == [start |-> 0, end |-> 0]

AIdle ==
    /\ argUniverse = NoRange
    /\ argCovered = << >>
    /\ gaps = << >>
    /\ mergedOnce = << >>
    /\ mergedTwice = << >>
    /\ applied = {}

(* the batches of a call are 1 .. Len(batches), at most one per key *)
Chunks == 1 .. MaxKeys

(* no task of a detail batch has been started *)
KIdle ==
    /\ chunkPc = [i \in Chunks |-> "idle"]
    /\ chunkStartAt = [i \in Chunks |-> 0]
    /\ chunkCollected = [i \in Chunks |-> << >>]
    /\ chunkTotal = [i \in Chunks |-> Absent]
    /\ chunkRequests = [i \in Chunks |-> 0]
    /\ onBatchCalls = [i \in Chunks |-> 0]
    /\ emitted = [i \in Chunks |-> << >>]

(* the endpoint where the detail requests are not followed one by one: every
   key matches, nothing is capped *)
ZPlain ==
    /\ hasOnBatch = FALSE
    /\ srvKeys = 1 .. MaxKeys
    /\ srvCap = MaxKeys
    /\ srvDeclaresTotal = TRUE
    /\ srvMode = "paged"

(* no first page has been received *)
GIdle ==
    /\ firstLen = 0
    /\ respTotal = Absent
    /\ respMaxResults = Absent
    /\ starts = << >>
    /\ allPages = << >>

NoResult == [of |-> "none", successes |-> 0, failures |-> 0]

(* a WorklogSubmissionService after construction: nothing pending, no call made *)
WIdle ==
    /\ wpc = "idle"
    /\ schedule = << >>
    /\ startHourUTC = 0
    /\ entryIdx = 0
    /\ successes = 0
    /\ failures = 0
    /\ remaining = << >>
    /\ pendingItems = << >>
    /\ pendingBefore = << >>
    /\ attempts = << >>
    /\ submitResult = NoResult
    /\ logged = << >>
    /\ accepted = << >>
    /\ wcalls = 0

(* no phase method of JiraApiService has been called *)
JIdle ==
    /\ WIdle
    /\ KIdle
    /\ ZPlain
    /\ GIdle
    /\ op = "none"
    /\ jpc = "idle"
    /\ optConcurrency = Absent
    /\ initialConcurrency = 0
    /\ targetConcurrency = 0
    /\ savedBefore = 0
    /\ jcalls = 0
    /\ keyCount = 0
    /\ optBatchSize = Absent
    /\ batches = << >>

(* mutant: the wave takes the whole of pending, whatever the concurrency *)
StartWave_wholeQueue ==
    /\ qpc = "loop"
    /\ Len(pending) > 0
    /\ batch' = pending
    /\ pending' = << >>
    /\ outcome' = [i \in Tasks |-> IF i \in Range(pending) THEN "running" ELSE outcome[i]]
    /\ execCount' = [i \in Tasks |-> IF i \in Range(pending) THEN execCount[i] + 1
                                     ELSE execCount[i]]
    /\ qpc' = "wave"
    /\ UNCHANGED << taskCount, startConcurrency, hasOnItem, concurrency, hadThrottle,
                    results, itemCalls, taskErr, succCount, throttles, thrown, ret >>

(* while (pending.length > 0) { batch = pending.splice(0, min(concurrency, pending.length));
   batch.map(async idx => taskFactories[idx]() ...) *)
StartWave ==
    /\ qpc = "loop"
    /\ Len(pending) > 0
    /\ LET n == Min(concurrency, Len(pending))
           b == Take(pending, n)
       IN  /\ batch' = b
           /\ pending' = Drop(pending, n)
           /\ outcome' = [i \in Tasks |-> IF i \in Range(b) THEN "running" ELSE outcome[i]]
           /\ execCount' = [i \in Tasks |-> IF i \in Range(b) THEN execCount[i] + 1 ELSE execCount[i]]
    /\ qpc' = "wave"
    /\ UNCHANGED << taskCount, startConcurrency, hasOnItem, concurrency, hadThrottle,
                    results, itemCalls, taskErr, succCount, throttles, thrown, ret >>

(* const value = await taskFactories[idx](); if (onItem) await onItem(value, idx):
   the task's promise resolved; with onItem the callback is invoked and awaited *)
TaskValue(i) ==
    /\ qpc = "wave"
    /\ outcome[i] = "running"
    /\ outcome' = [outcome EXCEPT ![i] = IF hasOnItem THEN "item" ELSE "ok"]
    /\ itemCalls' = [itemCalls EXCEPT ![i] = IF hasOnItem THEN @ + 1 ELSE @]
    /\ succCount' = [succCount EXCEPT ![i] = @ + 1]
    /\ UNCHANGED << taskCount, startConcurrency, hasOnItem, qpc, pending, concurrency,
                    hadThrottle, results, batch, taskErr, execCount, throttles, thrown,
                    ret >>

(* onItem returned, or threw and the error was ignored: return { idx, ok: true, value } *)
ItemSettle(i) ==
    /\ qpc = "wave"
    /\ outcome[i] = "item"
    /\ outcome' = [outcome EXCEPT ![i] = "ok"]
    /\ UNCHANGED << taskCount, startConcurrency, hasOnItem, qpc, pending, concurrency,
                    hadThrottle, results, batch, itemCalls, taskErr, execCount, succCount,
                    throttles, thrown, ret >>

(* catch (err) { return { idx, ok: false, err } } *)
TaskReject(i, err) ==
    /\ qpc = "wave"
    /\ outcome[i] = "running"
    /\ outcome' = [outcome EXCEPT ![i] = "err"]
    /\ taskErr' = [taskErr EXCEPT ![i] = err]
    /\ throttles' = IF isThrottleError(err) THEN throttles + 1 ELSE throttles
    /\ UNCHANGED << taskCount, startConcurrency, hasOnItem, qpc, pending, concurrency,
                    hadThrottle, results, batch, itemCalls, execCount, succCount, thrown,
                    ret >>

(* mutant: the outcomes are read without waiting for the onItem callbacks *)
AllSettled_itemPending == \A i \in Range(batch) : outcome[i] \in {"ok", "err", "item"}

(* await Promise.all(...): every task of the wave resolved (its onItem call
   included) or rejected *)
AllSettled == \A i \in Range(batch) : outcome[i] \in {"ok", "err"}

(* else if (this.isThrottleError(o.err)) ... else throw o.err *)
IsThrottled(i) == outcome[i] = "err" /\ isThrottleError(taskErr[i])

(* mutant: only an outcome without an error object is rethrown *)
IsFatal_swallowed(i) == outcome[i] = "err" /\ taskErr[i] = NoErr
IsFatal(i) == outcome[i] = "err" /\ ~ isThrottleError(taskErr[i])

(* position in batch of the first outcome that is a non-throttle failure; 0 if none *)
FirstFatalPos ==
    LET ps == {p \in 1 .. Len(batch) : IsFatal(batch[p])}
    IN  IF ps = {} THEN 0 ELSE CHOOSE p \in ps : \A q \in ps : p <= q

(* failed: the throttled indices, in the order of outcomes *)
Failed == SelectSeq(batch, IsThrottled)

(* mutant: the values of a wave that had a throttle failure are dropped *)
Stored_onlyCleanWave ==
    IF Failed # << >> THEN {}
    ELSE {batch[p] : p \in {q \in 1 .. Len(batch) : outcome[batch[q]] = "ok"}}

(* the indices whose value the for-loop over outcomes stores before it ends or throws *)
Stored ==
    LET lim == IF FirstFatalPos = 0 THEN Len(batch) ELSE FirstFatalPos - 1
    IN  {batch[p] : p \in {q \in 1 .. lim : outcome[batch[q]] = "ok"}}

(* mutant: pending.push(...failed) *)
Requeue_push(failed, pend) == pend \o failed

(* mutant: the throttled indices are not put back *)
Requeue_dropped(failed, pend) == pend

(* pending.unshift(...failed) *)
Requeue(failed, pend) == failed \o pend

(* mutant: the write of the reduced concurrency is not wrapped in try/catch, a
   store that throws makes the run reject *)
Reconcile_storeFailureThrows ==
    /\ qpc = "wave"
    /\ AllSettled
    /\ results' = [i \in Tasks |-> IF i \in Stored THEN Val(i, execCount[i]) ELSE results[i]]
    /\ batch' = << >>
    /\ outcome' = [i \in Tasks |-> "idle"]
    /\ IF FirstFatalPos # 0
       THEN /\ qpc' = "threw"
            /\ thrown' = [task |-> batch[FirstFatalPos],
                          attempt |-> execCount[batch[FirstFatalPos]],
                          err |-> taskErr[batch[FirstFatalPos]]]
            /\ UNCHANGED << pending, concurrency, hadThrottle, saved >>
       ELSE /\ qpc' = IF Failed # << >> /\ settings = "throws" THEN "threw" ELSE "loop"
            /\ thrown' = thrown
            /\ IF Failed # << >>
               THEN /\ hadThrottle' = TRUE
                    /\ concurrency' = NextConcurrency(concurrency)
                    /\ pending' = Requeue(Failed, pending)
                    /\ updateAdaptiveConcurrency(NextConcurrency(concurrency))
               ELSE UNCHANGED << pending, concurrency, hadThrottle, saved >>
    /\ UNCHANGED << taskCount, startConcurrency, hasOnItem, itemCalls, taskErr,
                    execCount, succCount, throttles, ret, settings >>

(* the loop over outcomes of one wave, and the throttled branch after it *)
Reconcile ==
    /\ qpc = "wave"
    /\ AllSettled
    /\ results' = [i \in Tasks |-> IF i \in Stored THEN Val(i, execCount[i]) ELSE results[i]]
    /\ batch' = << >>
    /\ outcome' = [i \in Tasks |-> "idle"]
    /\ IF FirstFatalPos # 0
       THEN /\ qpc' = "threw"
            /\ thrown' = [task |-> batch[FirstFatalPos],
                          attempt |-> execCount[batch[FirstFatalPos]],
                          err |-> taskErr[batch[FirstFatalPos]]]
            /\ UNCHANGED << pending, concurrency, hadThrottle, saved >>
       ELSE /\ qpc' = "loop"
            /\ thrown' = thrown
            /\ IF Failed # << >>
               THEN /\ hadThrottle' = TRUE
                    /\ concurrency' = NextConcurrency(concurrency)
                    /\ pending' = Requeue(Failed, pending)
                    /\ updateAdaptiveConcurrency(NextConcurrency(concurrency))
               ELSE UNCHANGED << pending, concurrency, hadThrottle, saved >>
    /\ UNCHANGED << taskCount, startConcurrency, hasOnItem, itemCalls, taskErr,
                    execCount, succCount, throttles, ret, settings >>

(* return { results, finalConcurrency: concurrency, hadThrottle } *)
Return ==
    /\ qpc = "loop"
    /\ Len(pending) = 0
    /\ qpc' = "returned"
    /\ ret' = [results |-> results, finalConcurrency |-> concurrency,
               hadThrottle |-> hadThrottle, set |-> TRUE]
    /\ UNCHANGED << taskCount, startConcurrency, hasOnItem, pending, concurrency,
                    hadThrottle, results, batch, outcome, itemCalls, taskErr, execCount,
                    succCount, throttles, thrown >>

QNext ==
    \/ StartWave /\ UNCHANGED << svars, pvars, avars, jvars >>
    \/ \E i \in Tasks : TaskValue(i) /\ UNCHANGED << svars, pvars, avars, jvars >>
    \/ \E i \in Tasks : ItemSettle(i) /\ UNCHANGED << svars, pvars, avars, jvars >>
    \/ \E i \in Tasks : \E err \in Errors :
          /\ isThrottleError(err) => throttles < MaxThrottles
          /\ TaskReject(i, err)
          /\ UNCHANGED << svars, pvars, avars, jvars >>
    \/ Reconcile /\ UNCHANGED << pvars, avars, jvars >>
    \/ Return /\ UNCHANGED << svars, pvars, avars, jvars >>

QStart == QInit /\ SInit /\ PInit /\ AIdle /\ JIdle

QSpec == QStart /\ [][QNext]_vars

(* the event loop runs every continuation that is ready, and every request settles *)
QLiveSpec == QStart /\ [][QNext]_vars /\ WF_vars(QNext)

(***************************************************************************)
(* IssueProviderService: days, ranges and the range algebra.               *)
(* A point in time is a tick; a day holds TicksPerDay ticks; an ISO day    *)
(* string "YYYY-MM-DD" is the number of the day (string comparison of two  *)
(* ISO days is comparison of the day numbers).                             *)
(***************************************************************************)
(* .sort((a, b) => a.start.localeCompare(b.start)): stable insertion by start *)
RECURSIVE InsertByStart(_, _)
InsertByStart(sorted, r) ==
    IF sorted = << >> THEN << r >>
    ELSE IF Head(sorted).start <= r.start
         THEN << Head(sorted) >> \o InsertByStart(Tail(sorted), r)
         ELSE << r >> \o sorted

RECURSIVE SortByStart(_)
SortByStart(ranges) ==
    IF ranges = << >> THEN << >>
    ELSE InsertByStart(SortByStart(SubSeq(ranges, 1, Len(ranges) - 1)), ranges[Len(ranges)])

(* mutant: folds overlapping ranges only, a range starting the day after the
   last one ends is kept apart *)
RECURSIVE MergeLoop_overlapOnly(_, _)
MergeLoop_overlapOnly(norm, merged) ==
    IF norm = << >> THEN merged
    ELSE LET r == Head(norm)
         IN  IF merged = << >>
             THEN MergeLoop_overlapOnly(Tail(norm), << r >>)
             ELSE LET last == merged[Len(merged)]
                  IN  IF r.start <= last.end
                      THEN MergeLoop_overlapOnly(Tail(norm),
                             [merged EXCEPT ![Len(merged)] =
                                [start |-> last.start,
                                 end |-> IF r.end > last.end THEN r.end ELSE last.end]])
                      ELSE MergeLoop_overlapOnly(Tail(norm), Append(merged, r))

(* the fold of mergeRanges over the sorted list *)
RECURSIVE MergeLoop(_, _)
MergeLoop(norm, merged) ==
    IF norm = << >> THEN merged
    ELSE LET r == Head(norm)
         IN  IF merged = << >>
             THEN MergeLoop(Tail(norm), << r >>)
             ELSE LET last == merged[Len(merged)]
                  IN  IF r.start <= nextDayIso(last.end)
                      THEN MergeLoop(Tail(norm),
                             [merged EXCEPT ![Len(merged)] =
                                [start |-> last.start,
                                 end |-> IF r.end > last.end THEN r.end ELSE last.end]])
                      ELSE MergeLoop(Tail(norm), Append(merged, r))

(* mutant: takes the end of a range for the day after it *)
mergeRanges_endExclusive(ranges) ==
    IF ranges = << >> THEN << >>
    ELSE MergeLoop(SortByStart([i \in 1 .. Len(ranges) |->
                      [start |-> ranges[i].start, end |-> nextDayIso(ranges[i].end)]]), << >>)

mergeRanges(ranges) ==
    IF ranges = << >> THEN << >> ELSE MergeLoop(SortByStart(ranges), << >>)

(* the sweep of subtractRanges over the merged covered ranges *)
RECURSIVE SubtractLoop(_, _, _, _)
SubtractLoop(universe, ordered, cursor, result) ==
    LET tail == IF cursor <= universe.end
                THEN Append(result, [start |-> cursor, end |-> universe.end])
                ELSE result
    IN  IF ordered = << >> THEN tail
        ELSE LET r == Head(ordered)
             IN  IF r.end < cursor THEN SubtractLoop(universe, Tail(ordered), cursor, result)
                 ELSE IF r.start > universe.end THEN tail
                 ELSE LET res == IF r.start > cursor
                                 THEN Append(result, [start |-> cursor, end |-> prevDayIso(r.start)])
                                 ELSE result
                          cur == nextDayIso(r.end)
                      IN  IF cur > universe.end THEN res
                          ELSE SubtractLoop(universe, Tail(ordered), cur, res)

(* mutant: sweeps the covered ranges as given, without merging them first *)
subtractRanges_unmerged(universe, covered) ==
    SubtractLoop(universe, covered, universe.start, << >>)

subtractRanges(universe, covered) ==
    SubtractLoop(universe, mergeRanges(covered), universe.start, << >>)

(***************************************************************************)
(* The range helpers applied to arbitrary arguments: a universe and a list *)
(* of covered ranges over the days 1 .. MaxRangeDay, every range with      *)
(* start <= end, the list in any order, with overlaps and repetitions.     *)
(***************************************************************************)
RangeDays == 1 .. MaxRangeDay
DayRanges == {r \in [start : RangeDays, end : RangeDays] : r.start <= r.end}
RangeLists == UNION {[1 .. n -> DayRanges] : n \in 0 .. MaxRanges}

AInit ==
    /\ argUniverse \in DayRanges
    /\ argCovered \in RangeLists
    /\ gaps = << >>
    /\ mergedOnce = << >>
    /\ mergedTwice = << >>
    /\ applied = {}

(* subtractRanges(argUniverse, argCovered) *)
ASubtract ==
    /\ "subtract" \notin applied
    /\ gaps' = subtractRanges(argUniverse, argCovered)
    /\ applied' = applied \cup {"subtract"}
    /\ UNCHANGED << argUniverse, argCovered, mergedOnce, mergedTwice >>

(* mergeRanges(argCovered) *)
AMerge ==
    /\ "merge" \notin applied
    /\ mergedOnce' = mergeRanges(argCovered)
    /\ applied' = applied \cup {"merge"}
    /\ UNCHANGED << argUniverse, argCovered, gaps, mergedTwice >>

(* mergeRanges applied to the list mergeRanges returned *)
AMergeAgain ==
    /\ "merge" \in applied
    /\ "remerge" \notin applied
    /\ mergedTwice' = mergeRanges(mergedOnce)
    /\ applied' = applied \cup {"remerge"}
    /\ UNCHANGED << argUniverse, argCovered, gaps, mergedOnce >>

ANext ==
    \/ ASubtract /\ UNCHANGED << qvars, svars, pvars, jvars >>
    \/ AMerge /\ UNCHANGED << qvars, svars, pvars, jvars >>
    \/ AMergeAgain /\ UNCHANGED << qvars, svars, pvars, jvars >>

AStart ==
    /\ AInit
    /\ PInit
    /\ QStateIs(NoRun)
    /\ settings = "absent"
    /\ saved = 0
    /\ JIdle

ASpec == AStart /\ [][ANext]_vars

(***************************************************************************)
(* Issues.  A detailed issue is modelled by its key and by the tick of the *)
(* current user's latest changelog entry or comment on it (0: none).       *)
(***************************************************************************)
Rec(k, a) == [key |-> k, act |-> a]
KeysOf(s) == {s[i].key : i \in DOMAIN s}

(* findLastChangeByUser / findLastCommentByUser / pickLatestISO: the user's
   latest activity with period.start <= created <= period.end, 0 for null *)
findLastActivity_endExclusive(act, per) ==
    IF act # 0 /\ per.start <= act /\ act < per.end THEN act ELSE 0

findLastActivity(act, per) ==
    IF act # 0 /\ per.start <= act /\ act <= per.end THEN act ELSE 0

(* results.sort((a, b) => tb - ta): a stable sort, latest activity first *)
InsertDesc(sorted, r) ==
    LET n == Cardinality({i \in DOMAIN sorted : sorted[i].act >= r.act})
    IN  Take(sorted, n) \o << r >> \o Drop(sorted, n)

RECURSIVE SortDesc(_)
SortDesc(s) ==
    IF s = << >> THEN << >>
    ELSE InsertDesc(SortDesc(SubSeq(s, 1, Len(s) - 1)), s[Len(s)])

IsRelevant(r, per) == findLastActivity(r.act, per) # 0

(* mutant: the cache view is not filtered by the period *)
computeFromCache_unfiltered(cache, per) == SortDesc(cache)

computeFromCache(cache, per) ==
    SortDesc(SelectSeq(cache, LAMBDA r : IsRelevant(r, per)))

(* map.set(i.key, i): an existing key keeps its place, a new key goes last *)
MapSet(cache, r) ==
    IF r.key \in KeysOf(cache)
    THEN [i \in DOMAIN cache |-> IF cache[i].key = r.key THEN r ELSE cache[i]]
    ELSE Append(cache, r)

RECURSIVE upsertIssuesIntoCache(_, _)
upsertIssuesIntoCache(cache, issues) ==
    IF issues = << >> THEN cache
    ELSE upsertIssuesIntoCache(MapSet(cache, Head(issues)), Tail(issues))

(* the binary search of insertSorted over the 0-based accumulator *)
RECURSIVE BinarySearch(_, _, _, _)
BinarySearch(acc, ts, lo, hi) ==
    IF lo < hi
    THEN LET mid == (lo + hi) \div 2
         IN  IF ts > acc[mid + 1].act
             THEN BinarySearch(acc, ts, lo, mid)
             ELSE BinarySearch(acc, ts, mid + 1, hi)
    ELSE lo

(* mutant: the issue is pushed at the end of the accumulator *)
insertSorted_append(acc, r) == Append(acc, r)

insertSorted(acc, r) ==
    LET lo == BinarySearch(acc, r.act, 0, Len(acc))
    IN  Take(acc, lo) \o << r >> \o Drop(acc, lo)

(* the loop of processBatch: relevant issues not yet seen are inserted *)
RECURSIVE processBatch(_, _, _)
processBatch(acc, issues, per) ==
    IF issues = << >> THEN acc
    ELSE LET r == Head(issues)
         IN  IF ~ IsRelevant(r, per) THEN processBatch(acc, Tail(issues), per)
             ELSE IF r.key \in KeysOf(acc) THEN processBatch(acc, Tail(issues), per)
             ELSE processBatch(insertSorted(acc, r), Tail(issues), per)

(***************************************************************************)
(* The server's answers.  A search matches a set of keys and cuts it into  *)
(* pages of maxResults keys; a detail request answers with one record per  *)
(* requested key.                                                          *)
(***************************************************************************)
RECURSIVE SetToSeq(_)
SetToSeq(S) ==
    IF S = {} THEN << >>
    ELSE LET k == CHOOSE x \in S : \A y \in S : x <= y
         IN  << k >> \o SetToSeq(S \ {k})

RECURSIVE Chunk(_, _)
Chunk(s, n) ==
    IF s = << >> THEN << >>
    ELSE << Take(s, Min(n, Len(s))) >> \o Chunk(Drop(s, Min(n, Len(s))), n)

RECURSIVE Flat(_)
Flat(ss) == IF ss = << >> THEN << >> ELSE Head(ss) \o Flat(Tail(ss))

(* the records received for a list of keys *)
RecsOf(keys, recs) == [i \in DOMAIN keys |-> Rec(keys[i], recs[keys[i]])]

(* ADAPTIVE_FALLBACK_CONCURRENCY, ADAPTIVE_DEFAULT_START_CONCURRENCY,
   ADAPTIVE_MAX_CONCURRENCY, ADAPTIVE_RAMP_UP_MIN_STEP and
   ADAPTIVE_RAMP_UP_RATIO = 1.1 as RampNum/RampDen *)
FallbackConcurrency == 12
DefaultStartConcurrency == 200
MaxConcurrency == 1000
RampUpMinStep == 1
RampNum == 11
RampDen == 10

(* mutant: without a saved value the fallback is used *)
StartingConcurrency_noDefault(s) ==
    IF settings = "ok" /\ s > 0 THEN s ELSE FallbackConcurrency

(* getStartingConcurrencyInfo when the store holds s for the host *)
StartingConcurrency(s) ==
    IF settings = "ok"
    THEN IF s > 0 THEN s ELSE DefaultStartConcurrency
    ELSE FallbackConcurrency

getStartingConcurrencyInfo == StartingConcurrency(saved)

(* mutant: the ramp-up without the minimum step *)
persistRampedUpConcurrencyIfSaved_ratioOnly ==
    IF settings = "ok"
    THEN IF saved > 0
         THEN updateAdaptiveConcurrency(Min(MaxConcurrency, (saved * RampNum) \div RampDen))
         ELSE updateAdaptiveConcurrency(DefaultStartConcurrency)
    ELSE saved' = saved

persistRampedUpConcurrencyIfSaved ==
    IF settings = "ok"
    THEN IF saved > 0
         THEN updateAdaptiveConcurrency(
                  Min(MaxConcurrency,
                      Max(saved + RampUpMinStep, (saved * RampNum) \div RampDen)))
         ELSE updateAdaptiveConcurrency(DefaultStartConcurrency)
    ELSE saved' = saved

CeilDiv(a, b) == (a + b - 1) \div b

(* fetchIssuesDetailedByKeys without options: batchSize =
   max(ceil(keys.length / targetConcurrency) || 0, 1) *)
DynamicBatchSize(n, target) == Max(CeilDiv(n, target), 1)

(* the batches of fetchIssuesDetailedByKeys(candidateKeys) *)
DetailBatches(keys, target) == Chunk(keys, DynamicBatchSize(Len(keys), target))

(* options.batchSize is a number: the model gives it in units of 1/BatchSizeDen,
   so that Math.floor has something to cut *)
BatchSizeDen == 2

(* (options?.batchSize && options.batchSize > 0) ? Math.floor(options.batchSize)
   : undefined *)
ExplicitBatchSize(optB) ==
    IF optB # Absent /\ optB > 0 THEN optB \div BatchSizeDen ELSE Absent

(* explicitBatchSize !== undefined ? explicitBatchSize
   : Math.max(Math.ceil(keys.length / targetConcurrency) || 0, 1) *)
BatchSize(n, optB, target) ==
    IF ExplicitBatchSize(optB) # Absent THEN ExplicitBatchSize(optB)
    ELSE DynamicBatchSize(n, target)

(* if (batchSize > 0) for (i = 0; i < keys.length; i += batchSize)
     batches.push(keys.slice(i, i + batchSize)) *)
Batches(ks, size) == IF size > 0 THEN Chunk(ks, size) ELSE << >>

(***************************************************************************)
(* JiraApiService: the phase methods fetchIssuesMinimal,                   *)
(* fetchIssuesMinimalPaged and fetchIssuesDetailedByKeys, called on a      *)
(* service whose settings store works, is missing or throws, and holds any *)
(* of SavedValues for the host (0: no value; a value below 1 can only have *)
(* been written by something else than updateAdaptiveConcurrency).         *)
(***************************************************************************)
SavedValues == {0 - 1, 0, 1, 2, 20, 999, 1000}

(* options.concurrency and options.batchSize of fetchIssuesDetailedByKeys: no
   batch size, 0.5 and 1 *)
OptConcurrencies == {Absent, 0, 2, 7}
OptBatchSizes == {Absent, 1, 2}

JInit ==
    /\ JIdle
    /\ settings \in {"ok", "absent", "throws"}
    /\ saved \in SavedValues

NoCall == jpc \in {"idle", "done", "failed"}

(* fetchIssuesMinimal(jql) or fetchIssuesMinimalPaged(jql, onPage) is called and
   sends the request for the first page *)
PhaseOneCall(o) ==
    /\ NoCall
    /\ jcalls < MaxApiCalls
    /\ jcalls' = jcalls + 1
    /\ op' = o
    /\ jpc' = "first"
    /\ optConcurrency' = Absent
    /\ initialConcurrency' = 0
    /\ targetConcurrency' = 0
    /\ savedBefore' = saved
    /\ keyCount' = 0
    /\ optBatchSize' = Absent
    /\ batches' = << >>
    /\ QBegin(NoRun)
    /\ UNCHANGED << svars, kvars, zvars, wvars, gvars >>

(* the first page arrived (and, paged, onPage returned for it); the search has
   n pages in all: with one page the method returns, else the remaining pages
   go to the queue processor at the starting concurrency *)
PhaseOneFirst(n) ==
    /\ jpc = "first"
    /\ IF n <= 1
       THEN /\ jpc' = "done"
            /\ UNCHANGED << initialConcurrency, targetConcurrency, qvars >>
       ELSE /\ jpc' = "run"
            /\ initialConcurrency' = getStartingConcurrencyInfo
            /\ targetConcurrency' = getStartingConcurrencyInfo
            /\ QBegin(RunState(n - 1, getStartingConcurrencyInfo, op = "paged"))
    /\ UNCHANGED << op, optConcurrency, savedBefore, jcalls, keyCount, optBatchSize,
                    batches, kvars, zvars, wvars, gvars, svars >>

(* the request for the first page failed, or onPage threw for the first page *)
PhaseOneFirstReject ==
    /\ jpc = "first"
    /\ jpc' = "failed"
    /\ UNCHANGED << op, optConcurrency, initialConcurrency, targetConcurrency,
                    savedBefore, jcalls, keyCount, optBatchSize, batches, kvars, zvars, wvars,
                    gvars, svars, qvars >>

(* fetchIssuesDetailedByKeys(keys, { batchSize, concurrency }) up to its call of
   the queue processor; n = keys.length *)
DetailedCall(n, optB, optC) ==
    /\ NoCall
    /\ jcalls < MaxApiCalls
    /\ jcalls' = jcalls + 1
    /\ op' = "detailed"
    /\ optConcurrency' = optC
    /\ savedBefore' = saved
    /\ keyCount' = n
    /\ optBatchSize' = optB
    /\ chunkPc' = [i \in Chunks |-> "idle"]
    /\ chunkStartAt' = [i \in Chunks |-> 0]
    /\ chunkCollected' = [i \in Chunks |-> << >>]
    /\ chunkTotal' = [i \in Chunks |-> Absent]
    /\ chunkRequests' = [i \in Chunks |-> 0]
    /\ onBatchCalls' = [i \in Chunks |-> 0]
    /\ emitted' = [i \in Chunks |-> << >>]
    /\ UNCHANGED << svars, zvars, wvars, gvars >>
    /\ IF n = 0
       THEN /\ jpc' = "done"
            /\ initialConcurrency' = 0
            /\ targetConcurrency' = 0
            /\ batches' = << >>
            /\ QBegin(NoRun)
       ELSE LET initial == getStartingConcurrencyInfo
                tgt == Max(1, IF optC = Absent THEN initial ELSE optC)
                chunks == Batches([i \in 1 .. n |-> i], BatchSize(n, optB, tgt))
            IN  /\ jpc' = "run"
                /\ initialConcurrency' = initial
                /\ targetConcurrency' = tgt
                /\ batches' = chunks
                /\ QBegin(RunState(Len(chunks), tgt, FALSE))

InApiRun == jpc = "run"

(* fetchIssuesMinimal / fetchIssuesMinimalPaged after the queue processor
   returned: await this.persistRampedUpConcurrencyIfSaved() *)
PhaseOneEnd ==
    /\ InApiRun
    /\ qpc = "returned"
    /\ op \in {"minimal", "paged"}
    /\ persistRampedUpConcurrencyIfSaved
    /\ jpc' = "done"
    /\ UNCHANGED << op, optConcurrency, initialConcurrency, targetConcurrency,
                    savedBefore, jcalls, keyCount, optBatchSize, batches, kvars, zvars, wvars,
                    gvars, settings, qvars >>

(* mutant: phase 2 ends like phase 1, with the ramp-up *)
DetailedEnd_ramps ==
    /\ InApiRun
    /\ qpc = "returned"
    /\ op = "detailed"
    /\ persistRampedUpConcurrencyIfSaved
    /\ jpc' = "done"
    /\ UNCHANGED << op, optConcurrency, initialConcurrency, targetConcurrency,
                    savedBefore, jcalls, keyCount, optBatchSize, batches, kvars, zvars, wvars,
                    gvars, settings, qvars >>

(* fetchIssuesDetailedByKeys after the queue processor returned:
   updateAdaptiveConcurrency(hadThrottle ? finalConcurrency : concurrency) *)
DetailedEnd ==
    /\ InApiRun
    /\ qpc = "returned"
    /\ op = "detailed"
    /\ IF ret.hadThrottle
       THEN updateAdaptiveConcurrency(ret.finalConcurrency)
       ELSE updateAdaptiveConcurrency(targetConcurrency)
    /\ jpc' = "done"
    /\ UNCHANGED << op, optConcurrency, initialConcurrency, targetConcurrency,
                    savedBefore, jcalls, keyCount, optBatchSize, batches, kvars, zvars, wvars,
                    gvars, settings, qvars >>

(* the queue processor threw: the method rejects *)
ApiRunThrew ==
    /\ InApiRun
    /\ qpc = "threw"
    /\ jpc' = "failed"
    /\ UNCHANGED << op, optConcurrency, initialConcurrency, targetConcurrency,
                    savedBefore, jcalls, keyCount, optBatchSize, batches, kvars, zvars, wvars,
                    gvars, svars, qvars >>

JNext ==
    \/ \E o \in {"minimal", "paged"} : PhaseOneCall(o) /\ UNCHANGED << pvars, avars >>
    \/ \E n \in 0 .. MaxPages : PhaseOneFirst(n) /\ UNCHANGED << pvars, avars >>
    \/ PhaseOneFirstReject /\ UNCHANGED << pvars, avars >>
    \/ \E n \in 0 .. MaxKeys : \E optB \in OptBatchSizes : \E optC \in OptConcurrencies :
          DetailedCall(n, optB, optC) /\ UNCHANGED << pvars, avars >>
    \/ InApiRun /\ StartWave /\ UNCHANGED << svars, pvars, avars, jvars >>
    \/ \E i \in Tasks : InApiRun /\ TaskValue(i) /\ UNCHANGED << svars, pvars, avars, jvars >>
    \/ \E i \in Tasks : InApiRun /\ ItemSettle(i) /\ UNCHANGED << svars, pvars, avars, jvars >>
    \/ \E i \in Tasks : \E err \in PErrors :
          /\ InApiRun
          /\ isThrottleError(err) => throttles < MaxThrottles
          /\ TaskReject(i, err)
          /\ UNCHANGED << svars, pvars, avars, jvars >>
    \/ InApiRun /\ Reconcile /\ UNCHANGED << pvars, avars, jvars >>
    \/ InApiRun /\ Return /\ UNCHANGED << svars, pvars, avars, jvars >>
    \/ PhaseOneEnd /\ UNCHANGED << pvars, avars >>
    \/ DetailedEnd /\ UNCHANGED << pvars, avars >>
    \/ ApiRunThrew /\ UNCHANGED << pvars, avars >>

JStart == JInit /\ QStateIs(NoRun) /\ PInit /\ AIdle

JSpec == JStart /\ [][JNext]_vars

(***************************************************************************)
(* The batching of fetchIssuesDetailedByKeys alone (lines 254-270): the    *)
(* method called with up to MaxBatchKeys keys, with no batch size or one   *)
(* of 0, 0.5, 1, 2, 2.5 and 3.5, and with no concurrency option or one of  *)
(* 0, 2 and 10, up to the point where it hands the batches to the queue    *)
(* processor.                                                              *)
(***************************************************************************)
BatchKeyCounts == 0 .. MaxBatchKeys
BatchSizeOptions == {Absent, 0, 1, 2, 4, 5, 7}
BatchTargets == {Absent, 0, 2, 10}

BNext ==
    \E n \in BatchKeyCounts : \E optB \in BatchSizeOptions : \E optC \in BatchTargets :
        DetailedCall(n, optB, optC) /\ UNCHANGED << pvars, avars >>

BStart ==
    /\ JIdle
    /\ settings \in {"ok", "absent"}
    /\ saved \in {0, 3}
    /\ QStateIs(NoRun)
    /\ PInit
    /\ AIdle

BSpec == BStart /\ [][BNext]_vars

(***************************************************************************)
(* fetchIssuesDetailedByKeys with the task of each batch followed request  *)
(* by request (lines 275-319): the loop over the pages of one key query,   *)
(* the onBatch call and the return of collected, run by the queue          *)
(* processor.  The endpoint holds an issue for the keys in srvKeys, puts   *)
(* at most srvCap issues in a response, carries a total or not, and either *)
(* honours startAt or answers every request from offset 0.                 *)
(***************************************************************************)
(* JIRA_SEARCH_DESIRED_PAGE_SIZE *)
JiraSearchDesiredPageSize == 1000

(* an attempt that has sent this many requests sends no more: one more than
   any attempt needs against an endpoint that honours startAt *)
MaxChunkRequests == MaxKeys + 2

(* the issues the query `key in (chunk)` matches, in the order the endpoint
   lists them *)
ChunkItems(i) == SelectSeq(batches[i], LAMBDA k : k \in srvKeys)

(* const requestedPageSize = Math.min(JIRA_SEARCH_DESIRED_PAGE_SIZE, chunk.length) *)
RequestedPageSize(i) == Min(JiraSearchDesiredPageSize, Len(batches[i]))

(* data.issues of the response to { jql, maxResults, startAt } *)
ServerPage(items, offset, maxResults) ==
    LET from == IF srvMode = "repeat" THEN 0 ELSE offset
        upto == Min(Len(items), from + Min(srvCap, maxResults))
    IN  IF from >= upto THEN << >> ELSE SubSeq(items, from + 1, upto)

(* the factory of each task of the wave is invoked: collected = [], startAt = 0,
   total = null *)
KStartWave ==
    /\ InApiRun
    /\ StartWave
    /\ chunkPc' = [i \in Chunks |-> IF i \in Range(batch') THEN "loop" ELSE chunkPc[i]]
    /\ chunkStartAt' = [i \in Chunks |-> IF i \in Range(batch') THEN 0 ELSE chunkStartAt[i]]
    /\ chunkCollected' = [i \in Chunks |->
                             IF i \in Range(batch') THEN << >> ELSE chunkCollected[i]]
    /\ chunkTotal' = [i \in Chunks |-> IF i \in Range(batch') THEN Absent ELSE chunkTotal[i]]
    /\ chunkRequests' = [i \in Chunks |-> IF i \in Range(batch') THEN 0 ELSE chunkRequests[i]]
    /\ UNCHANGED << onBatchCalls, emitted >>

(* mutant: startAt is not advanced *)
KPage_sameOffset(i) ==
    /\ InApiRun
    /\ qpc = "wave"
    /\ chunkPc[i] = "loop"
    /\ chunkRequests[i] < MaxChunkRequests
    /\ LET pageIssues == ServerPage(ChunkItems(i), chunkStartAt[i], RequestedPageSize(i))
           all == chunkCollected[i] \o pageIssues
           tot == IF srvDeclaresTotal THEN Len(ChunkItems(i)) ELSE chunkTotal[i]
           stop == Len(pageIssues) = 0 \/ (tot # Absent /\ Len(all) >= tot)
       IN  /\ chunkRequests' = [chunkRequests EXCEPT ![i] = @ + 1]
           /\ chunkCollected' = [chunkCollected EXCEPT ![i] = all]
           /\ chunkTotal' = [chunkTotal EXCEPT ![i] = tot]
           /\ chunkPc' = [chunkPc EXCEPT ![i] = IF stop THEN "emit" ELSE "loop"]
           /\ chunkStartAt' = chunkStartAt
    /\ UNCHANGED << onBatchCalls, emitted, qvars >>

(* one turn of for (;;): the request is answered; the page is collected, the
   total noted, and the loop breaks on an empty page or when collected has
   reached the total, else startAt += pageIssues.length *)
KPage(i) ==
    /\ InApiRun
    /\ qpc = "wave"
    /\ chunkPc[i] = "loop"
    /\ chunkRequests[i] < MaxChunkRequests
    /\ LET pageIssues == ServerPage(ChunkItems(i), chunkStartAt[i], RequestedPageSize(i))
           all == chunkCollected[i] \o pageIssues
           tot == IF srvDeclaresTotal THEN Len(ChunkItems(i)) ELSE chunkTotal[i]
           stop == Len(pageIssues) = 0 \/ (tot # Absent /\ Len(all) >= tot)
       IN  /\ chunkRequests' = [chunkRequests EXCEPT ![i] = @ + 1]
           /\ chunkCollected' = [chunkCollected EXCEPT ![i] = all]
           /\ chunkTotal' = [chunkTotal EXCEPT ![i] = tot]
           /\ chunkPc' = [chunkPc EXCEPT ![i] = IF stop THEN "emit" ELSE "loop"]
           /\ chunkStartAt' = [chunkStartAt EXCEPT ![i] = IF stop THEN @ ELSE @ + Len(pageIssues)]
    /\ UNCHANGED << onBatchCalls, emitted, qvars >>

(* mutant: onBatch is called for every page as it arrives *)
KEmit_perPage(i) ==
    /\ InApiRun
    /\ qpc = "wave"
    /\ chunkPc[i] \in {"loop", "emit"}
    /\ chunkCollected[i] # << >>
    /\ onBatchCalls[i] < chunkRequests[i]
    /\ chunkPc' = [chunkPc EXCEPT ![i] = IF @ = "emit" THEN "emitted" ELSE @]
    /\ onBatchCalls' = [onBatchCalls EXCEPT ![i] = @ + 1]
    /\ emitted' = [emitted EXCEPT ![i] = chunkCollected[i]]
    /\ UNCHANGED << chunkStartAt, chunkCollected, chunkTotal, chunkRequests, qvars >>

(* if (options?.onBatch && collected.length > 0) await options.onBatch(collected.slice()) *)
KEmit(i) ==
    /\ InApiRun
    /\ qpc = "wave"
    /\ chunkPc[i] = "emit"
    /\ chunkPc' = [chunkPc EXCEPT ![i] = "emitted"]
    /\ IF hasOnBatch /\ Len(chunkCollected[i]) > 0
       THEN /\ onBatchCalls' = [onBatchCalls EXCEPT ![i] = @ + 1]
            /\ emitted' = [emitted EXCEPT ![i] = chunkCollected[i]]
       ELSE UNCHANGED << onBatchCalls, emitted >>
    /\ UNCHANGED << chunkStartAt, chunkCollected, chunkTotal, chunkRequests, qvars >>

(* onBatch returned, or threw and the error was ignored: return collected *)
KResolve(i) ==
    /\ InApiRun
    /\ chunkPc[i] = "emitted"
    /\ TaskValue(i)
    /\ chunkPc' = [chunkPc EXCEPT ![i] = "done"]
    /\ UNCHANGED << chunkStartAt, chunkCollected, chunkTotal, chunkRequests, onBatchCalls,
                    emitted >>

(* a request of the loop failed: _request throws, and so does the task *)
KReject(i, err) ==
    /\ InApiRun
    /\ chunkPc[i] = "loop"
    /\ TaskReject(i, err)
    /\ chunkPc' = [chunkPc EXCEPT ![i] = "failed"]
    /\ UNCHANGED << chunkStartAt, chunkCollected, chunkTotal, chunkRequests, onBatchCalls,
                    emitted >>

(* the part of the call's state the batch tasks leave alone *)
kfixed == << op, jpc, optConcurrency, initialConcurrency, targetConcurrency, savedBefore,
            jcalls, keyCount, optBatchSize, batches, zvars, wvars, gvars >>

(* options.batchSize of the calls followed request by request: 1, 2 and 3 keys
   per batch *)
KBatchSizes == {1 * BatchSizeDen, 2 * BatchSizeDen, 3 * BatchSizeDen}
KConcurrencies == {1, 2}

KNext ==
    \/ \E n \in 0 .. MaxKeys : \E optB \in KBatchSizes : \E optC \in KConcurrencies :
          DetailedCall(n, optB, optC) /\ UNCHANGED << pvars, avars >>
    \/ KStartWave /\ UNCHANGED << svars, pvars, avars, kfixed >>
    \/ \E i \in Tasks : KPage(i) /\ UNCHANGED << svars, pvars, avars, kfixed >>
    \/ \E i \in Tasks : KEmit(i) /\ UNCHANGED << svars, pvars, avars, kfixed >>
    \/ \E i \in Tasks : KResolve(i) /\ UNCHANGED << svars, pvars, avars, kfixed >>
    \/ \E i \in Tasks : \E err \in PErrors :
          /\ isThrottleError(err) => throttles < MaxCallThrottles
          /\ KReject(i, err)
          /\ UNCHANGED << svars, pvars, avars, kfixed >>
    \/ InApiRun /\ Reconcile /\ UNCHANGED << pvars, avars, jvars >>
    \/ InApiRun /\ Return /\ UNCHANGED << svars, pvars, avars, jvars >>
    \/ DetailedEnd /\ UNCHANGED << pvars, avars >>
    \/ ApiRunThrew /\ UNCHANGED << pvars, avars >>

(* one call is followed; the endpoints: one key may be unknown, a response
   holds 1 or 2 issues or is not capped *)
KStart ==
    /\ op = "none"
    /\ jpc = "idle"
    /\ optConcurrency = Absent
    /\ initialConcurrency = 0
    /\ targetConcurrency = 0
    /\ savedBefore = 0
    /\ jcalls = MaxApiCalls - 1
    /\ keyCount = 0
    /\ optBatchSize = Absent
    /\ batches = << >>
    /\ WIdle
    /\ KIdle
    /\ GIdle
    /\ hasOnBatch \in BOOLEAN
    /\ srvKeys \in {1 .. MaxKeys, 2 .. MaxKeys}
    /\ srvCap \in {1, 2, MaxKeys}
    /\ srvDeclaresTotal \in BOOLEAN
    /\ srvMode \in {"paged", "repeat"}
    /\ settings = "ok"
    /\ saved = 0
    /\ QStateIs(NoRun)
    /\ PInit
    /\ AIdle

KSpec == KStart /\ [][KNext]_vars

(* every request of a batch task that is sent is answered in the end, by a page
   unless by an error *)
KLiveSpec ==
    /\ KStart
    /\ [][KNext]_vars
    /\ \A i \in Chunks : WF_vars(KPage(i) /\ UNCHANGED << svars, pvars, avars, kfixed >>)

(***************************************************************************)
(* The page plan of phase 1 (fetchIssuesMinimal 129-161,                   *)
(* fetchIssuesMinimalPaged 189-243) and of the legacy fetchIssues (52-108):*)
(* total and page size are read from the first response, the offsets of    *)
(* the other pages are computed, each offset becomes one request, and the  *)
(* pages are put together.  A page is named by its offset; the pages after *)
(* the first are taken to hold at least one issue.                         *)
(***************************************************************************)
(* JIRA_DEFAULT_PAGINATION_CONCURRENCY *)
JiraDefaultPaginationConcurrency == 8

(* const total = typeof first.total === 'number' ? first.total : firstIssues.length *)
FirstTotal(f, t) == IF t # Absent THEN t ELSE f

(* const pageSize = typeof first.maxResults === 'number' ? first.maxResults : desiredPageSize *)
FirstPageSize(m) == IF m # Absent THEN m ELSE JiraSearchDesiredPageSize

(* mutant: the offsets go up to and including total *)
RECURSIVE StartsLoop_inclusive(_, _, _, _)
StartsLoop_inclusive(s, pageSize, total, acc) ==
    IF s <= total THEN StartsLoop_inclusive(s + pageSize, pageSize, total, Append(acc, s)) ELSE acc

(* for (let s = pageSize; s < total; s += pageSize) starts.push(s) *)
RECURSIVE StartsLoop(_, _, _, _)
StartsLoop(s, pageSize, total, acc) ==
    IF s < total THEN StartsLoop(s + pageSize, pageSize, total, Append(acc, s)) ELSE acc

Starts(pageSize, total) == StartsLoop(pageSize, pageSize, total, << >>)

(* for (const p of pages) if (p && p.length) all.push(...p): the pages in the
   order of results *)
PagesOf(res) == [i \in DOMAIN res |-> starts[res[i].task]]

(* the first response of fetchIssuesMinimal / fetchIssuesMinimalPaged arrived
   with f issues, total t and maxResults m (paged: onPage returned for it) *)
FirstResponse(f, t, m) ==
    /\ jpc = "first"
    /\ op \in {"minimal", "paged"}
    /\ firstLen' = f
    /\ respTotal' = t
    /\ respMaxResults' = m
    /\ allPages' = IF f > 0 THEN << 0 >> ELSE << >>
    /\ IF f >= FirstTotal(f, t)
       THEN /\ jpc' = "done"
            /\ starts' = << >>
            /\ UNCHANGED << initialConcurrency, targetConcurrency, qvars >>
       ELSE LET st == Starts(FirstPageSize(m), FirstTotal(f, t))
            IN  /\ jpc' = "run"
                /\ starts' = st
                /\ initialConcurrency' = getStartingConcurrencyInfo
                /\ targetConcurrency' = getStartingConcurrencyInfo
                /\ QBegin(RunState(Len(st), getStartingConcurrencyInfo, op = "paged"))
    /\ UNCHANGED << op, optConcurrency, savedBefore, jcalls, keyCount, optBatchSize,
                    batches, kvars, zvars, wvars, svars >>

(* fetchIssues(jql) is called and sends the request for the first page *)
LegacyCall ==
    /\ NoCall
    /\ jcalls < MaxApiCalls
    /\ jcalls' = jcalls + 1
    /\ op' = "legacy"
    /\ jpc' = "first"
    /\ optConcurrency' = Absent
    /\ initialConcurrency' = 0
    /\ targetConcurrency' = 0
    /\ savedBefore' = saved
    /\ keyCount' = 0
    /\ optBatchSize' = Absent
    /\ batches' = << >>
    /\ QBegin(NoRun)
    /\ UNCHANGED << svars, kvars, zvars, wvars, gvars >>

(* the first response of fetchIssues arrived: with everything in the first
   page the ramp-up is persisted and the method returns, else up to
   JIRA_DEFAULT_PAGINATION_CONCURRENCY workers share the offsets *)
LegacyFirstResponse(f, t, m) ==
    /\ jpc = "first"
    /\ op = "legacy"
    /\ firstLen' = f
    /\ respTotal' = t
    /\ respMaxResults' = m
    /\ allPages' = IF f > 0 THEN << 0 >> ELSE << >>
    /\ IF f >= FirstTotal(f, t)
       THEN /\ jpc' = "done"
            /\ starts' = << >>
            /\ persistRampedUpConcurrencyIfSaved
            /\ UNCHANGED << initialConcurrency, targetConcurrency, qvars >>
       ELSE LET st == Starts(FirstPageSize(m), FirstTotal(f, t))
            IN  /\ jpc' = "run"
                /\ starts' = st
                /\ initialConcurrency' = JiraDefaultPaginationConcurrency
                /\ targetConcurrency' = JiraDefaultPaginationConcurrency
                /\ QBegin(RunState(Len(st), JiraDefaultPaginationConcurrency, FALSE))
                /\ UNCHANGED saved
    /\ UNCHANGED << op, optConcurrency, savedBefore, jcalls, keyCount, optBatchSize,
                    batches, kvars, zvars, wvars, settings >>

(* a worker is free: const idx = cursor++ and the request for starts[idx] is sent.
   The offsets not yet taken are pending; workers = min(concurrency, starts.length) *)
LegacyTake ==
    /\ InApiRun
    /\ op = "legacy"
    /\ Len(pending) > 0
    /\ Cardinality({i \in Tasks : outcome[i] = "running"}) < Min(concurrency, taskCount)
    /\ LET i == Head(pending)
       IN  /\ pending' = Tail(pending)
           /\ outcome' = [outcome EXCEPT ![i] = "running"]
           /\ execCount' = [execCount EXCEPT ![i] = @ + 1]
    /\ UNCHANGED << taskCount, startConcurrency, hasOnItem, qpc, concurrency, hadThrottle,
                    results, batch, itemCalls, taskErr, succCount, throttles, thrown, ret >>

(* results[idx] = data.issues || [] *)
LegacyDone(i) ==
    /\ InApiRun
    /\ op = "legacy"
    /\ outcome[i] = "running"
    /\ outcome' = [outcome EXCEPT ![i] = "ok"]
    /\ results' = [results EXCEPT ![i] = Val(i, execCount[i])]
    /\ succCount' = [succCount EXCEPT ![i] = @ + 1]
    /\ UNCHANGED << taskCount, startConcurrency, hasOnItem, qpc, pending, concurrency,
                    hadThrottle, batch, itemCalls, taskErr, execCount, throttles, thrown,
                    ret >>

(* a request of a worker failed: Promise.all rejects; on a throttle error the
   reduced concurrency is persisted; the error is rethrown, nothing is retried *)
LegacyFail(i, err) ==
    /\ InApiRun
    /\ op = "legacy"
    /\ outcome[i] = "running"
    /\ outcome' = [outcome EXCEPT ![i] = "err"]
    /\ taskErr' = [taskErr EXCEPT ![i] = err]
    /\ throttles' = IF isThrottleError(err) THEN throttles + 1 ELSE throttles
    /\ thrown' = [task |-> i, attempt |-> execCount[i], err |-> err]
    /\ qpc' = "threw"
    /\ jpc' = "failed"
    /\ IF isThrottleError(err)
       THEN updateAdaptiveConcurrency(ReducedConcurrency(concurrency))
       ELSE UNCHANGED saved
    /\ UNCHANGED << taskCount, startConcurrency, hasOnItem, pending, concurrency,
                    hadThrottle, results, batch, itemCalls, execCount, succCount, ret >>
    /\ UNCHANGED << op, optConcurrency, initialConcurrency, targetConcurrency, savedBefore,
                    jcalls, keyCount, optBatchSize, batches, kvars, zvars, wvars, gvars, settings >>

(* every worker ran out of offsets: updateAdaptiveConcurrency(concurrency), then
   the pages are pushed in the order of results and all is returned *)
LegacyEnd ==
    /\ InApiRun
    /\ op = "legacy"
    /\ Len(pending) = 0
    /\ \A i \in Tasks : outcome[i] = "ok"
    /\ updateAdaptiveConcurrency(concurrency)
    /\ allPages' = allPages \o PagesOf(results)
    /\ jpc' = "done"
    /\ UNCHANGED << op, optConcurrency, initialConcurrency, targetConcurrency, savedBefore,
                    jcalls, keyCount, optBatchSize, batches, kvars, zvars, wvars, settings, qvars,
                    firstLen, respTotal, respMaxResults, starts >>

(* a page after the first arrived; paged: onItem pushes it to all and hands it
   to onPage *)
FTaskValue(i) ==
    /\ InApiRun
    /\ op \in {"minimal", "paged"}
    /\ TaskValue(i)
    /\ allPages' = IF op = "paged" THEN Append(allPages, starts[i]) ELSE allPages
    /\ UNCHANGED << firstLen, respTotal, respMaxResults, starts >>

(* the queue processor returned: fetchIssuesMinimal pushes the pages in the
   order of results (fetchIssuesMinimalPaged has pushed them as they arrived),
   the ramp-up is persisted and all is returned *)
FEnd ==
    /\ InApiRun
    /\ qpc = "returned"
    /\ op \in {"minimal", "paged"}
    /\ persistRampedUpConcurrencyIfSaved
    /\ allPages' = IF op = "minimal" THEN allPages \o PagesOf(ret.results) ELSE allPages
    /\ jpc' = "done"
    /\ UNCHANGED << op, optConcurrency, initialConcurrency, targetConcurrency, savedBefore,
                    jcalls, keyCount, optBatchSize, batches, kvars, zvars, wvars, settings, qvars,
                    firstLen, respTotal, respMaxResults, starts >>

(* what the first response can say: up to 2 issues, no total or one up to
   MaxPages + 1, no maxResults or one of 1 .. 3 *)
FirstLens == 0 .. 2
FirstTotals == {Absent} \cup (0 .. (MaxPages + 1))
FirstMaxResults == {Absent, 1, 2, 3}

ffixed == << op, jpc, optConcurrency, initialConcurrency, targetConcurrency, savedBefore,
            jcalls, keyCount, optBatchSize, batches, kvars, zvars, wvars >>

FNext ==
    \/ \E o \in {"minimal", "paged"} : PhaseOneCall(o) /\ UNCHANGED << pvars, avars >>
    \/ LegacyCall /\ UNCHANGED << pvars, avars >>
    \/ \E f \in FirstLens : \E t \in FirstTotals : \E m \in FirstMaxResults :
          FirstResponse(f, t, m) /\ UNCHANGED << pvars, avars >>
    \/ \E f \in FirstLens : \E t \in FirstTotals : \E m \in FirstMaxResults :
          LegacyFirstResponse(f, t, m) /\ UNCHANGED << pvars, avars >>
    \/ PhaseOneFirstReject /\ UNCHANGED << pvars, avars >>
    \/ InApiRun /\ op # "legacy" /\ StartWave /\ UNCHANGED << svars, pvars, avars, jvars >>
    \/ \E i \in Tasks : FTaskValue(i) /\ UNCHANGED << svars, pvars, avars, ffixed >>
    \/ \E i \in Tasks : InApiRun /\ ItemSettle(i) /\ UNCHANGED << svars, pvars, avars, jvars >>
    \/ \E i \in Tasks : \E err \in PErrors :
          /\ InApiRun
          /\ op # "legacy"
          /\ isThrottleError(err) => throttles < MaxCallThrottles
          /\ TaskReject(i, err)
          /\ UNCHANGED << svars, pvars, avars, jvars >>
    \/ InApiRun /\ op # "legacy" /\ Reconcile /\ UNCHANGED << pvars, avars, jvars >>
    \/ InApiRun /\ op # "legacy" /\ Return /\ UNCHANGED << svars, pvars, avars, jvars >>
    \/ FEnd /\ UNCHANGED << pvars, avars >>
    \/ ApiRunThrew /\ op # "legacy" /\ UNCHANGED << pvars, avars >>
    \/ LegacyTake /\ UNCHANGED << svars, pvars, avars, jvars >>
    \/ \E i \in Tasks : LegacyDone(i) /\ UNCHANGED << svars, pvars, avars, jvars >>
    \/ \E i \in Tasks : \E err \in PErrors : LegacyFail(i, err) /\ UNCHANGED << pvars, avars >>
    \/ LegacyEnd /\ UNCHANGED << pvars, avars >>

(* one call is followed, on a host with no saved concurrency or with 2 saved *)
FStart ==
    /\ op = "none"
    /\ jpc = "idle"
    /\ optConcurrency = Absent
    /\ initialConcurrency = 0
    /\ targetConcurrency = 0
    /\ savedBefore = 0
    /\ jcalls = MaxApiCalls - 1
    /\ keyCount = 0
    /\ optBatchSize = Absent
    /\ batches = << >>
    /\ WIdle
    /\ KIdle
    /\ ZPlain
    /\ GIdle
    /\ settings = "ok"
    /\ saved \in {0, 2}
    /\ QStateIs(NoRun)
    /\ PInit
    /\ AIdle

FSpec == FStart /\ [][FNext]_vars

(***************************************************************************)
(* IssueProviderService.getIssuesByActivity (mode "minimal", and           *)
(* "pipelined" when pipelinedPhase2Enabled is set) and                     *)
(* getIssuesByActivityStream (mode "stream").                              *)
(***************************************************************************)
Modes == {"minimal", "pipelined", "stream"}

Universe(per) == [start |-> toIsoDay(per.start), end |-> toIsoDay(per.end)]

(* mutant: no gap is skipped, a trailing gap is fetched like the leading one *)
Skipped_none(delta) == FALSE

(* if (this.openEndedStartISO && delta.start >= this.openEndedStartISO) continue *)
Skipped(delta) == openEndedStartISO # 0 /\ delta.start >= openEndedStartISO

(* mutant: the query has no upper bound *)
Jql_openEnded(delta) == [lo |-> delta.start, hi |-> 0]

(* mutant: the upper bound of the query includes the day the coverage starts *)
Jql_closedEnd(delta) ==
    [lo |-> delta.start,
     hi |-> IF openEndedStartISO = 0 THEN 0 ELSE nextDayIso(openEndedStartISO)]

(* updated >= delta.start, AND updated < upperBoundISO when there is one (hi # 0) *)
Jql(delta) == [lo |-> delta.start, hi |-> openEndedStartISO]

(* mutant: the open-ended start follows the latest request *)
EarliestStart_latest(universe) == universe.start

(* if (!this.openEndedStartISO || universe.start < this.openEndedStartISO)
     this.openEndedStartISO = universe.start *)
EarliestStart(universe) ==
    IF openEndedStartISO = 0 \/ universe.start < openEndedStartISO
    THEN universe.start
    ELSE openEndedStartISO

(* the run of one page's fetchIssuesDetailedByKeys call (one batch, as batchSize
   = pageSize): the target it read when it started, its current concurrency
   and whether it was throttled *)
NoPageRun == [target |-> 0, concurrency |-> 0, hadThrottle |-> FALSE]
PageRunAt(c) == [target |-> Max(1, c), concurrency |-> Max(1, c), hadThrottle |-> FALSE]

(* hadThrottle ? finalConcurrency : concurrency, what the call persists when its
   queue run has returned *)
PageRunCloses(r) == IF r.hadThrottle THEN r.concurrency ELSE r.target

(* the call settles: its locals are dropped *)
CallEnds(status, result) ==
    /\ ppc' = "idle"
    /\ callStatus' = status
    /\ callResult' = result
    /\ todo' = << >>
    /\ di' = 0
    /\ jql' = NoJql
    /\ pages' = << >>
    /\ pageDetail' = << >>
    /\ pageRun' = << >>
    /\ promiseOrder' = << >>
    /\ runRecs' = NoRecs
    /\ newlyFetched' = << >>
    /\ accumulator' = << >>
    /\ QBegin(NoRun)

(* a call of getIssues (issueSource "activity") or getIssuesByActivityStream,
   up to its first search request; userOk: getCurrentUser() resolved *)
CallStart(m, per, userOk) ==
    /\ ppc = "idle"
    /\ calls < MaxCalls
    /\ calls' = calls + 1
    /\ mode' = m
    /\ period' = per
    /\ preRanges' = fetchedRanges
    /\ preOpen' = openEndedStartISO
    /\ fatalSeen' = FALSE
    /\ callThrottles' = 0
    /\ lowestReduced' = 0
    /\ progressCalls' = 0
    /\ totalBatches' = 0
    /\ processedBatches' = 0
    /\ lastProgress' = NoProgress
    /\ phase1Done' = FALSE
    /\ avgMeasured' = FALSE
    /\ UNCHANGED svars
    /\ LET universe == Universe(per)
           deltas == subtractRanges(universe, fetchedRanges)
           fetchable == SelectSeq(deltas, LAMBDA d : ~ Skipped(d))
           cached == computeFromCache(allFetchedIssues, per)
       IN  IF ~ userOk
           THEN /\ CallEnds("rejected", << >>)
                /\ updates' = 0
                /\ lastUpdate' = << >>
                /\ requests' = 0
                /\ queries' = << >>
                /\ UNCHANGED rvars
           ELSE IF deltas = << >> \/ (fetchable = << >> /\ m = "stream")
           THEN (* served from the cache; the stream emits one update *)
                /\ CallEnds("resolved", cached)
                /\ updates' = IF m = "stream" THEN 1 ELSE 0
                /\ lastUpdate' = IF m = "stream" THEN cached ELSE << >>
                /\ requests' = 0
                /\ queries' = << >>
                /\ UNCHANGED rvars
           ELSE IF fetchable = << >>
           THEN (* getIssuesByActivity: every delta skipped, lines 300-309 *)
                LET cache == upsertIssuesIntoCache(allFetchedIssues, << >>)
                IN  /\ openEndedStartISO' = EarliestStart(universe)
                    /\ allFetchedIssues' = cache
                    /\ fetchedRanges' = fetchedRanges
                    /\ CallEnds("resolved", computeFromCache(cache, per))
                    /\ updates' = 0
                    /\ lastUpdate' = << >>
                    /\ requests' = 0
                    /\ queries' = << >>
           ELSE (* the first delta's first page is requested *)
                /\ ppc' = "first"
                /\ callStatus' = "running"
                /\ callResult' = << >>
                /\ todo' = fetchable
                /\ di' = 1
                /\ jql' = Jql(fetchable[1])
                /\ queries' = << Jql(fetchable[1]) >>
                /\ pages' = << >>
                /\ pageDetail' = << >>
                /\ pageRun' = << >>
                /\ promiseOrder' = << >>
                /\ runRecs' = NoRecs
                /\ newlyFetched' = << >>
                /\ accumulator' = IF m = "stream" THEN cached ELSE << >>
                /\ updates' = 0
                /\ lastUpdate' = << >>
                /\ requests' = 1
                /\ UNCHANGED << rvars, qvars >>

(* the answer to the first page request of fetchIssuesMinimal(Paged): the
   query matches the keys K and the server's maxResults is ps *)
FirstResolve(K, ps) ==
    /\ ppc = "first"
    /\ LET pgs == Chunk(SetToSeq(K), ps)
           n == Len(pgs)
           first == IF n = 0 THEN << >> ELSE pgs[1]
           detail0 == mode # "minimal" /\ first # << >>
           c == getStartingConcurrencyInfo
       IN  /\ pages' = pgs
           /\ pageDetail' = [p \in 1 .. n |->
                                IF p = 1 /\ detail0 THEN "running" ELSE "none"]
           /\ pageRun' = [p \in 1 .. n |->
                             IF p = 1 /\ detail0 THEN PageRunAt(c) ELSE NoPageRun]
           /\ promiseOrder' = IF detail0 /\ mode = "pipelined" THEN << 1 >> ELSE << >>
           /\ requests' = IF detail0 THEN requests + 1 ELSE requests
           /\ IF mode = "stream" /\ first # << >>
              THEN /\ totalBatches' = totalBatches + CeilDiv(Len(first), ps)
                   /\ progressCalls' = progressCalls + 1
                   /\ lastProgress' = BaselineSnapshot(processedBatches, totalBatches')
              ELSE UNCHANGED << totalBatches, progressCalls, lastProgress >>
           /\ IF n > 1 /\ mode # "stream"
              THEN /\ ppc' = "pages"
                   /\ QBegin(RunState(n - 1, c, mode # "minimal"))
              ELSE IF mode = "minimal" /\ first # << >>
              THEN /\ ppc' = "detail"
                   /\ QBegin(RunState(Len(DetailBatches(first, Max(1, c))), Max(1, c),
                                      FALSE))
              ELSE /\ ppc' = IF first = << >> /\ mode # "pipelined" THEN "merge"
                             ELSE IF mode = "stream" THEN "page0"
                             ELSE "join"
                   /\ UNCHANGED qvars
    /\ UNCHANGED << rvars, cvars, di, jql, queries, runRecs, newlyFetched, accumulator,
                    updates, lastUpdate, processedBatches, phase1Done, avgMeasured,
                    fatalSeen, callThrottles, lowestReduced, callStatus, callResult, svars >>

(* the first page request failed: nothing retries it, the call rejects *)
FirstReject(err) ==
    /\ ppc = "first"
    /\ fatalSeen' = (fatalSeen \/ ~ isThrottleError(err))
    /\ CallEnds("rejected", << >>)
    /\ UNCHANGED << rvars, mode, period, preRanges, preOpen, calls, queries, ovars,
                    requests, callThrottles, lowestReduced, svars >>

InRun == ppc \in {"pages", "detail"}

(* a wave of page requests or of detail batches is sent *)
PStartWave ==
    /\ InRun
    /\ StartWave
    /\ requests' = requests + Len(batch')
    /\ UNCHANGED << rvars, cvars, dvars, fvars, ovars, fatalSeen, callThrottles, lowestReduced, evars,
                    svars >>

(* a later page arrived; onItem hands it to onPage, which starts the page's
   fetchIssuesDetailedByKeys (awaited by the stream, only collected by getIssues) *)
PageTaskValue(i) ==
    /\ ppc = "pages"
    /\ TaskValue(i)
    /\ IF hasOnItem
       THEN /\ pageDetail' = [pageDetail EXCEPT ![i + 1] = "running"]
            /\ pageRun' = [pageRun EXCEPT ![i + 1] = PageRunAt(getStartingConcurrencyInfo)]
            /\ promiseOrder' = IF mode = "pipelined" THEN Append(promiseOrder, i + 1)
                               ELSE promiseOrder
            /\ requests' = requests + 1
       ELSE UNCHANGED << pageDetail, pageRun, promiseOrder, requests >>
    /\ UNCHANGED << rvars, cvars, dvars, runRecs, newlyFetched, accumulator, ovars,
                    fatalSeen, callThrottles, lowestReduced, evars, svars >>

(* a detail batch of fetchIssuesDetailedByKeys(candidateKeys) was answered *)
DetailTaskValue(i, f) ==
    /\ ppc = "detail"
    /\ DOMAIN f = Range(DetailBatches(Flat(pages), startConcurrency)[i])
    /\ TaskValue(i)
    /\ runRecs' = [k \in Keys |-> IF k \in DOMAIN f THEN f[k] ELSE runRecs[k]]
    /\ UNCHANGED << rvars, cvars, dvars, pageDetail, pageRun, promiseOrder, newlyFetched,
                    accumulator, ovars, hvars, evars, svars >>

(* onItem settled: the stream's onPage has awaited the page's detail fetch,
   whether it resolved or rejected *)
PItemSettle(i) ==
    /\ ppc = "pages"
    /\ mode = "stream" => pageDetail[i + 1] \in {"done", "failed"}
    /\ ItemSettle(i)
    /\ UNCHANGED << pvars, svars >>

PTaskReject(i, err) ==
    /\ InRun
    /\ isThrottleError(err) => callThrottles < MaxCallThrottles
    /\ TaskReject(i, err)
    /\ callThrottles' = IF isThrottleError(err) THEN callThrottles + 1 ELSE callThrottles
    /\ lowestReduced' = lowestReduced
    /\ fatalSeen' = (fatalSeen \/ ~ isThrottleError(err))
    /\ UNCHANGED << rvars, cvars, dvars, fvars, ovars, requests, evars, svars >>

(* the lowest reduced value persisted so far in the call, once v was persisted *)
LowestWith(v) ==
    IF settings # "ok" THEN lowestReduced
    ELSE IF lowestReduced = 0 THEN v ELSE Min(lowestReduced, v)

PReconcile ==
    /\ InRun
    /\ Reconcile
    /\ lowestReduced' = IF FirstFatalPos = 0 /\ Failed # << >>
                        THEN LowestWith(saved') ELSE lowestReduced
    /\ UNCHANGED << rvars, cvars, dvars, fvars, ovars, requests, fatalSeen, callThrottles,
                    evars >>

PReturn == InRun /\ Return /\ UNCHANGED << pvars, svars >>

(* fetchIssuesMinimal(Paged) after its processQueue call returned *)
PagesDone ==
    /\ ppc = "pages"
    /\ qpc = "returned"
    /\ persistRampedUpConcurrencyIfSaved
    /\ settings' = settings
    /\ IF mode = "minimal"
       THEN /\ ppc' = "detail"
            /\ QBegin(RunState(Len(DetailBatches(Flat(pages),
                                                 Max(1, StartingConcurrency(saved')))),
                               Max(1, StartingConcurrency(saved')), FALSE))
       ELSE /\ ppc' = IF mode = "stream" THEN "merge" ELSE "join"
            /\ QBegin(NoRun)
    /\ UNCHANGED << rvars, cvars, dvars, fvars, ovars, hvars, callStatus, callResult >>

(* fetchIssuesDetailedByKeys(candidateKeys) after its processQueue call returned *)
DetailDone ==
    /\ ppc = "detail"
    /\ qpc = "returned"
    /\ updateAdaptiveConcurrency(IF ret.hadThrottle THEN ret.finalConcurrency
                                 ELSE startConcurrency)
    /\ settings' = settings
    /\ newlyFetched' = newlyFetched \o RecsOf(Flat(pages), runRecs)
    /\ ppc' = "merge"
    /\ QBegin(NoRun)
    /\ UNCHANGED << rvars, cvars, dvars, pageDetail, pageRun, promiseOrder, runRecs, accumulator,
                    ovars, hvars, callStatus, callResult >>

(* processQueueWithAdaptiveConcurrency threw: the error leaves the call *)
RunFailed ==
    /\ InRun
    /\ qpc = "threw"
    /\ CallEnds("rejected", << >>)
    /\ UNCHANGED << rvars, mode, period, preRanges, preOpen, calls, queries, ovars,
                    hvars, svars >>

(* the stream's processBatch for the records of one answered detail batch *)
StreamBatch(recs) ==
    /\ newlyFetched' = newlyFetched \o recs
    /\ accumulator' = processBatch(accumulator, recs, period)
    /\ updates' = updates + 1
    /\ lastUpdate' = accumulator'
    /\ processedBatches' = processedBatches + 1
    /\ progressCalls' = IF totalBatches > 0 THEN progressCalls + 1 ELSE progressCalls
    /\ phase1Done' = phase1Done
    /\ IF totalBatches > 0 /\ phase1Done
       THEN /\ avgMeasured' \in BOOLEAN
            /\ lastProgress' = MeasuredSnapshot(processedBatches', totalBatches, avgMeasured')
       ELSE /\ avgMeasured' = avgMeasured
            /\ lastProgress' = IF totalBatches > 0
                               THEN BaselineSnapshot(processedBatches', totalBatches)
                               ELSE lastProgress

(* the one detail batch of page p (batchSize = pageSize) was answered: the
   call's queue run returns and the call persists its target concurrency, or its
   reduced one when it was throttled; after page 0 of the stream
   fetchIssuesMinimalPaged goes on and reads the starting concurrency *)
PageDetailResolve(p, f) ==
    /\ ppc \in {"page0", "pages", "join"}
    /\ p \in DOMAIN pageDetail
    /\ pageDetail[p] = "running"
    /\ DOMAIN f = Range(pages[p])
    /\ pageDetail' = [pageDetail EXCEPT ![p] = "done"]
    /\ pageRun' = [pageRun EXCEPT ![p] = NoPageRun]
    /\ updateAdaptiveConcurrency(PageRunCloses(pageRun[p]))
    /\ settings' = settings
    /\ runRecs' = [k \in Keys |-> IF k \in DOMAIN f THEN f[k] ELSE runRecs[k]]
    /\ IF mode = "stream"
       THEN StreamBatch(RecsOf(pages[p], f))
       ELSE UNCHANGED << newlyFetched, accumulator, updates, processedBatches,
                         progressCalls, lastProgress, lastUpdate, phase1Done,
                         avgMeasured >>
    /\ IF ppc = "page0"
       THEN IF Len(pages) > 1
            THEN /\ ppc' = "pages"
                 /\ QBegin(RunState(Len(pages) - 1, StartingConcurrency(saved'), TRUE))
            ELSE /\ ppc' = "merge"
                 /\ UNCHANGED qvars
       ELSE UNCHANGED << ppc, qvars >>
    /\ UNCHANGED << rvars, cvars, dvars, promiseOrder, totalBatches, hvars, callStatus,
                    callResult >>

(* the stream's detail batch of page p was answered with no issue at all (the
   search key in (...) matched nothing): collected is empty, onBatch is not
   invoked (line 314) and fetchIssuesDetailedByKeys resolves with [] *)
PageDetailEmpty(p) ==
    /\ mode = "stream"
    /\ ppc \in {"page0", "pages"}
    /\ p \in DOMAIN pageDetail
    /\ pageDetail[p] = "running"
    /\ pageDetail' = [pageDetail EXCEPT ![p] = "done"]
    /\ pageRun' = [pageRun EXCEPT ![p] = NoPageRun]
    /\ updateAdaptiveConcurrency(PageRunCloses(pageRun[p]))
    /\ settings' = settings
    /\ IF ppc = "page0"
       THEN IF Len(pages) > 1
            THEN /\ ppc' = "pages"
                 /\ QBegin(RunState(Len(pages) - 1, StartingConcurrency(saved'), TRUE))
            ELSE /\ ppc' = "merge"
                 /\ UNCHANGED qvars
       ELSE UNCHANGED << ppc, qvars >>
    /\ UNCHANGED << rvars, cvars, dvars, promiseOrder, runRecs, newlyFetched,
                    accumulator, ovars, hvars, callStatus, callResult >>

(* the detail batch of page p was throttled: its own queue run sends it again *)
PageDetailThrottle(p, err) ==
    /\ ppc \in {"page0", "pages", "join"}
    /\ p \in DOMAIN pageDetail
    /\ pageDetail[p] = "running"
    /\ isThrottleError(err)
    /\ callThrottles < MaxCallThrottles
    /\ callThrottles' = callThrottles + 1
    /\ requests' = requests + 1
    /\ pageRun' = [pageRun EXCEPT ![p] = [target |-> @.target,
                                         concurrency |-> NextConcurrency(@.concurrency),
                                         hadThrottle |-> TRUE]]
    /\ updateAdaptiveConcurrency(NextConcurrency(pageRun[p].concurrency))
    /\ settings' = settings
    /\ lowestReduced' = LowestWith(saved')
    /\ UNCHANGED << rvars, cvars, dvars, pageDetail, promiseOrder, runRecs, newlyFetched,
                    accumulator, ovars, fatalSeen, evars, qvars >>

(* the detail batch of page p failed for good: fetchIssuesDetailedByKeys rejects.
   For page 0 of the stream the rejection leaves fetchIssuesMinimalPaged (line 195);
   for a later page it is thrown inside onItem *)
PageDetailFatal(p, err) ==
    /\ ppc \in {"page0", "pages", "join"}
    /\ p \in DOMAIN pageDetail
    /\ pageDetail[p] = "running"
    /\ ~ isThrottleError(err)
    /\ fatalSeen' = TRUE
    /\ IF ppc = "page0"
       THEN /\ CallEnds("rejected", << >>)
            /\ UNCHANGED << queries >>
       ELSE /\ pageDetail' = [pageDetail EXCEPT ![p] = "failed"]
            /\ pageRun' = [pageRun EXCEPT ![p] = NoPageRun]
            /\ UNCHANGED << todo, di, jql, queries, pages, promiseOrder, runRecs,
                            newlyFetched, accumulator, evars, qvars >>
    /\ UNCHANGED << rvars, mode, period, preRanges, preOpen, calls, ovars, requests,
                    callThrottles, lowestReduced, svars >>

(* await Promise.all(pageDetailPromises); newlyFetchedIssues.push(...pageDetails.flat()) *)
JoinResolve ==
    /\ ppc = "join"
    /\ \A p \in DOMAIN pageDetail : pageDetail[p] = "done"
    /\ newlyFetched' = newlyFetched \o
                         RecsOf(Flat([j \in DOMAIN promiseOrder |-> pages[promiseOrder[j]]]),
                                runRecs)
    /\ ppc' = "merge"
    /\ UNCHANGED << rvars, cvars, dvars, pageDetail, pageRun, promiseOrder, runRecs, accumulator,
                    ovars, hvars, callStatus, callResult, qvars, svars >>

JoinReject ==
    /\ ppc = "join"
    /\ \E p \in DOMAIN pageDetail : pageDetail[p] = "failed"
    /\ CallEnds("rejected", << >>)
    /\ UNCHANGED << rvars, mode, period, preRanges, preOpen, calls, queries, ovars,
                    hvars, svars >>

(* the delta's fetch returned: it is merged into fetchedRanges; after the last
   delta the open-ended start moves, the cache takes the fetched issues and the
   call resolves *)
DeltaDone ==
    /\ ppc = "merge"
    /\ fetchedRanges' = mergeRanges(Append(fetchedRanges, todo[di]))
    /\ IF di < Len(todo)
       THEN /\ di' = di + 1
            /\ jql' = Jql(todo[di + 1])
            /\ queries' = Append(queries, Jql(todo[di + 1]))
            /\ requests' = requests + 1
            /\ ppc' = "first"
            /\ pages' = << >>
            /\ pageDetail' = << >>
            /\ pageRun' = << >>
            /\ promiseOrder' = << >>
            /\ runRecs' = NoRecs
            /\ UNCHANGED << openEndedStartISO, allFetchedIssues, todo, newlyFetched,
                            accumulator, progressCalls, lastProgress, phase1Done,
                            callStatus, callResult, qvars >>
       ELSE LET fetched == upsertIssuesIntoCache(allFetchedIssues, newlyFetched)
                cache == IF mode = "stream"
                         THEN upsertIssuesIntoCache(fetched, accumulator)
                         ELSE fetched
            IN  /\ openEndedStartISO' = EarliestStart(Universe(period))
                /\ allFetchedIssues' = cache
                /\ progressCalls' = IF mode = "stream" /\ totalBatches > 0
                                    THEN progressCalls + 1 ELSE progressCalls
                /\ lastProgress' = IF mode = "stream" /\ totalBatches > 0
                                   THEN FinalSnapshot(processedBatches, totalBatches)
                                   ELSE lastProgress
                /\ phase1Done' = (mode = "stream")
                /\ CallEnds("resolved",
                            IF mode = "stream" THEN accumulator
                            ELSE computeFromCache(cache, period))
                /\ UNCHANGED << queries, requests >>
    /\ UNCHANGED << mode, period, preRanges, preOpen, calls, updates, lastUpdate,
                    totalBatches, processedBatches, avgMeasured, fatalSeen, callThrottles, lowestReduced,
                    svars >>

PNext ==
    \/ \E m \in Modes : \E per \in Periods : \E userOk \in BOOLEAN :
          CallStart(m, per, userOk) /\ UNCHANGED << avars, jvars >>
    \/ \E K \in SUBSET Keys : \E ps \in PageSizes :
          FirstResolve(K, ps) /\ UNCHANGED << avars, jvars >>
    \/ \E err \in PErrors : FirstReject(err) /\ UNCHANGED << avars, jvars >>
    \/ PStartWave /\ UNCHANGED << avars, jvars >>
    \/ \E i \in Tasks : PageTaskValue(i) /\ UNCHANGED << avars, jvars >>
    \/ \E i \in Tasks : \E S \in SUBSET Keys : \E f \in [S -> Acts] :
          DetailTaskValue(i, f) /\ UNCHANGED << avars, jvars >>
    \/ \E i \in Tasks : PItemSettle(i) /\ UNCHANGED << avars, jvars >>
    \/ \E i \in Tasks : \E err \in PErrors :
          PTaskReject(i, err) /\ UNCHANGED << avars, jvars >>
    \/ PReconcile /\ UNCHANGED << avars, jvars >>
    \/ PReturn /\ UNCHANGED << avars, jvars >>
    \/ PagesDone /\ UNCHANGED << avars, jvars >>
    \/ DetailDone /\ UNCHANGED << avars, jvars >>
    \/ RunFailed /\ UNCHANGED << avars, jvars >>
    \/ \E p \in 1 .. NumIssues : \E S \in SUBSET Keys : \E f \in [S -> Acts] :
          PageDetailResolve(p, f) /\ UNCHANGED << avars, jvars >>
    \/ \E p \in 1 .. NumIssues : \E err \in PErrors :
          PageDetailThrottle(p, err) /\ UNCHANGED << avars, jvars >>
    \/ \E p \in 1 .. NumIssues : \E err \in PErrors :
          PageDetailFatal(p, err) /\ UNCHANGED << avars, jvars >>
    \/ JoinResolve /\ UNCHANGED << avars, jvars >>
    \/ JoinReject /\ UNCHANGED << avars, jvars >>
    \/ DeltaDone /\ UNCHANGED << avars, jvars >>

(* a provider over a JiraApiService constructed without a SettingsService,
   before its first call *)
PStart ==
    /\ PInit
    /\ QStateIs(NoRun)
    /\ settings = "absent"
    /\ saved = 0
    /\ AIdle
    /\ JIdle

PSpec == PStart /\ [][PNext]_vars

(***************************************************************************)
(* The provider called over a longer calendar, 1 .. MaxCalendarDay, by a   *)
(* server whose searches find either no issue or every issue, none of them *)
(* with activity of the current user: the calls differ in the ranges they  *)
(* fetch and in how their requests fail, not in the records they cache.    *)
(***************************************************************************)
CalendarTicks == TicksPerDay .. ((MaxCalendarDay + 1) * TicksPerDay - 1)
(* the periods asked for: whole days, from the first tick of a day to the last
   tick of a day *)
CalendarPeriods ==
    {p \in [start : CalendarTicks, end : CalendarTicks] :
        /\ p.start <= p.end
        /\ p.start % TicksPerDay = 0
        /\ (p.end + 1) % TicksPerDay = 0}

RNext ==
    \/ \E m \in Modes : \E per \in CalendarPeriods : \E userOk \in BOOLEAN :
          CallStart(m, per, userOk) /\ UNCHANGED << avars, jvars >>
    \/ \E K \in {{}, Keys} : \E ps \in PageSizes :
          FirstResolve(K, ps) /\ UNCHANGED << avars, jvars >>
    \/ \E err \in PErrors : FirstReject(err) /\ UNCHANGED << avars, jvars >>
    \/ PStartWave /\ UNCHANGED << avars, jvars >>
    \/ \E i \in Tasks : PageTaskValue(i) /\ UNCHANGED << avars, jvars >>
    \/ \E i \in Tasks : \E S \in SUBSET Keys : \E f \in [S -> {0}] :
          DetailTaskValue(i, f) /\ UNCHANGED << avars, jvars >>
    \/ \E i \in Tasks : PItemSettle(i) /\ UNCHANGED << avars, jvars >>
    \/ \E i \in Tasks : \E err \in PErrors :
          PTaskReject(i, err) /\ UNCHANGED << avars, jvars >>
    \/ PReconcile /\ UNCHANGED << avars, jvars >>
    \/ PReturn /\ UNCHANGED << avars, jvars >>
    \/ PagesDone /\ UNCHANGED << avars, jvars >>
    \/ DetailDone /\ UNCHANGED << avars, jvars >>
    \/ RunFailed /\ UNCHANGED << avars, jvars >>
    \/ \E p \in 1 .. NumIssues : \E S \in SUBSET Keys : \E f \in [S -> {0}] :
          PageDetailResolve(p, f) /\ UNCHANGED << avars, jvars >>
    \/ \E p \in 1 .. NumIssues : \E err \in PErrors :
          PageDetailThrottle(p, err) /\ UNCHANGED << avars, jvars >>
    \/ \E p \in 1 .. NumIssues : \E err \in PErrors :
          PageDetailFatal(p, err) /\ UNCHANGED << avars, jvars >>
    \/ JoinResolve /\ UNCHANGED << avars, jvars >>
    \/ JoinReject /\ UNCHANGED << avars, jvars >>
    \/ DeltaDone /\ UNCHANGED << avars, jvars >>

RSpec == PStart /\ [][RNext]_vars

(***************************************************************************)
(* getIssuesByActivityStream alone, against a server that may also answer  *)
(* a detail request with no issue (an issue found by the search of phase 1 *)
(* need not be found again by the search of phase 2).                      *)
(***************************************************************************)
TNext ==
    \/ \E per \in Periods : \E userOk \in BOOLEAN :
          CallStart("stream", per, userOk) /\ UNCHANGED << avars, jvars >>
    \/ \E K \in SUBSET Keys : \E ps \in PageSizes :
          FirstResolve(K, ps) /\ UNCHANGED << avars, jvars >>
    \/ \E err \in PErrors : FirstReject(err) /\ UNCHANGED << avars, jvars >>
    \/ PStartWave /\ UNCHANGED << avars, jvars >>
    \/ \E i \in Tasks : PageTaskValue(i) /\ UNCHANGED << avars, jvars >>
    \/ \E i \in Tasks : PItemSettle(i) /\ UNCHANGED << avars, jvars >>
    \/ \E i \in Tasks : \E err \in PErrors :
          PTaskReject(i, err) /\ UNCHANGED << avars, jvars >>
    \/ PReconcile /\ UNCHANGED << avars, jvars >>
    \/ PReturn /\ UNCHANGED << avars, jvars >>
    \/ PagesDone /\ UNCHANGED << avars, jvars >>
    \/ RunFailed /\ UNCHANGED << avars, jvars >>
    \/ \E p \in 1 .. NumIssues : \E S \in SUBSET Keys : \E f \in [S -> Acts] :
          PageDetailResolve(p, f) /\ UNCHANGED << avars, jvars >>
    \/ \E p \in 1 .. NumIssues : PageDetailEmpty(p) /\ UNCHANGED << avars, jvars >>
    \/ \E p \in 1 .. NumIssues : \E err \in PErrors :
          PageDetailThrottle(p, err) /\ UNCHANGED << avars, jvars >>
    \/ \E p \in 1 .. NumIssues : \E err \in PErrors :
          PageDetailFatal(p, err) /\ UNCHANGED << avars, jvars >>
    \/ DeltaDone /\ UNCHANGED << avars, jvars >>

TSpec == PStart /\ [][TNext]_vars

(***************************************************************************)
(* The provider over a JiraApiService with a working SettingsService that  *)
(* holds a small saved concurrency for the host: the calls that start      *)
(* phase-2 detail fetches from the page callback, getIssues (pipelined)    *)
(* and getIssuesByActivityStream, with every write of the host's           *)
(* concurrency taking effect.                                              *)
(***************************************************************************)
SavedConcurrencies == {1, 2}
CallbackModes == {"pipelined", "stream"}
(* the requested periods: whole days *)
WholeDays == {p \in Periods : p.start % TicksPerDay = 0 /\ (p.end + 1) % TicksPerDay = 0}

HNext ==
    \/ \E m \in CallbackModes : \E per \in WholeDays : \E userOk \in BOOLEAN :
          CallStart(m, per, userOk) /\ UNCHANGED << avars, jvars >>
    \/ \E K \in SUBSET Keys : \E ps \in PageSizes :
          FirstResolve(K, ps) /\ UNCHANGED << avars, jvars >>
    \/ \E err \in PErrors : FirstReject(err) /\ UNCHANGED << avars, jvars >>
    \/ PStartWave /\ UNCHANGED << avars, jvars >>
    \/ \E i \in Tasks : PageTaskValue(i) /\ UNCHANGED << avars, jvars >>
    \/ \E i \in Tasks : PItemSettle(i) /\ UNCHANGED << avars, jvars >>
    \/ \E i \in Tasks : \E err \in PErrors :
          PTaskReject(i, err) /\ UNCHANGED << avars, jvars >>
    \/ PReconcile /\ UNCHANGED << avars, jvars >>
    \/ PReturn /\ UNCHANGED << avars, jvars >>
    \/ PagesDone /\ UNCHANGED << avars, jvars >>
    \/ RunFailed /\ UNCHANGED << avars, jvars >>
    \/ \E p \in 1 .. NumIssues : \E S \in SUBSET Keys : \E f \in [S -> Acts] :
          PageDetailResolve(p, f) /\ UNCHANGED << avars, jvars >>
    \/ \E p \in 1 .. NumIssues : \E err \in PErrors :
          PageDetailThrottle(p, err) /\ UNCHANGED << avars, jvars >>
    \/ \E p \in 1 .. NumIssues : \E err \in PErrors :
          PageDetailFatal(p, err) /\ UNCHANGED << avars, jvars >>
    \/ JoinResolve /\ UNCHANGED << avars, jvars >>
    \/ JoinReject /\ UNCHANGED << avars, jvars >>
    \/ DeltaDone /\ UNCHANGED << avars, jvars >>

HStart ==
    /\ PInit
    /\ QStateIs(NoRun)
    /\ settings = "ok"
    /\ saved \in SavedConcurrencies
    /\ AIdle
    /\ JIdle

HSpec == HStart /\ [][HNext]_vars

(***************************************************************************)
(* WorklogSubmissionService: submitSchedule and retryPending, one logWork  *)
(* request at a time, each of which Jira accepts or refuses.               *)
(***************************************************************************)
WorklogIssues == {1, 2}
WorklogDays == {1}
WorklogMinutes == {0 - 1, 0, 1}
StartHours == {8}
RetryStartHour == 9

ScheduleEntries == [issueId : WorklogIssues, dayISO : WorklogDays, minutes : WorklogMinutes]

(* Object.entries(schedule) with Object.entries(perDay) inside: no day twice
   for an issue, the days of an issue together *)
Schedules ==
    {sch \in UNION {[1 .. n -> ScheduleEntries] : n \in 0 .. MaxEntries} :
        /\ \A i, j \in DOMAIN sch :
              (i # j /\ sch[i].issueId = sch[j].issueId) => sch[i].dayISO # sch[j].dayISO
        /\ \A i, j, k \in DOMAIN sch :
              (i < j /\ j < k /\ sch[i].issueId = sch[k].issueId) =>
                  sch[j].issueId = sch[i].issueId}

(* mutant: only an entry without minutes is left out *)
NoMinutes_zeroOnly(minutes) == minutes = 0

(* if (!minutes || minutes <= 0) continue *)
NoMinutes(minutes) == minutes = 0 \/ minutes <= 0

(* new Date(Date.UTC(y, m - 1, d, hourUTC, 0, 0)) *)
composeStarted(dayISO, hourUTC) == [day |-> dayISO, hour |-> hourUTC]

(* the worklog that this.jira.logWork(issueId, minutes * 60, started) creates *)
logWork(issueId, seconds, started) ==
    [issueId |-> issueId, timeSpentSeconds |-> seconds, started |-> started]

(* submitSchedule is called *)
SubmitBegin(sch, hour) ==
    /\ wpc = "idle"
    /\ wcalls < MaxWorklogCalls
    /\ wcalls' = wcalls + 1
    /\ wpc' = "submit"
    /\ schedule' = sch
    /\ startHourUTC' = hour
    /\ entryIdx' = 1
    /\ successes' = 0
    /\ failures' = 0
    /\ remaining' = << >>
    /\ pendingBefore' = pendingItems
    /\ attempts' = << >>
    /\ submitResult' = NoResult
    /\ UNCHANGED << pendingItems, logged, accepted >>

(* an entry without positive minutes is passed over *)
SubmitSkip ==
    /\ wpc = "submit"
    /\ entryIdx <= Len(schedule)
    /\ NoMinutes(schedule[entryIdx].minutes)
    /\ entryIdx' = entryIdx + 1
    /\ UNCHANGED << wpc, schedule, startHourUTC, successes, failures, remaining,
                    pendingItems, pendingBefore, attempts, submitResult, logged, accepted,
                    wcalls >>

(* the logWork request for an entry settled: successes++, or the entry is
   pushed to pending and failures++ *)
SubmitLogWork(ok) ==
    /\ wpc = "submit"
    /\ entryIdx <= Len(schedule)
    /\ ~ NoMinutes(schedule[entryIdx].minutes)
    /\ LET e == schedule[entryIdx]
       IN  /\ accepted' = Append(accepted, e)
           /\ IF ok
              THEN /\ logged' = Append(logged,
                                       logWork(e.issueId, e.minutes * 60,
                                               composeStarted(e.dayISO, startHourUTC)))
                   /\ successes' = successes + 1
                   /\ UNCHANGED << pendingItems, failures >>
              ELSE /\ pendingItems' = Append(pendingItems, e)
                   /\ failures' = failures + 1
                   /\ UNCHANGED << logged, successes >>
    /\ attempts' = Append(attempts, [pos |-> entryIdx, ok |-> ok])
    /\ entryIdx' = entryIdx + 1
    /\ UNCHANGED << wpc, schedule, startHourUTC, remaining, pendingBefore, submitResult,
                    wcalls >>

(* return { successes, failures } *)
SubmitReturn ==
    /\ wpc = "submit"
    /\ entryIdx > Len(schedule)
    /\ wpc' = "idle"
    /\ submitResult' = [of |-> "submitSchedule", successes |-> successes,
                        failures |-> failures]
    /\ UNCHANGED << schedule, startHourUTC, entryIdx, successes, failures, remaining,
                    pendingItems, pendingBefore, attempts, logged, accepted, wcalls >>

(* retryPending is called *)
RetryBegin ==
    /\ wpc = "idle"
    /\ wcalls < MaxWorklogCalls
    /\ wcalls' = wcalls + 1
    /\ wpc' = "retry"
    /\ schedule' = << >>
    /\ startHourUTC' = 0
    /\ entryIdx' = 1
    /\ successes' = 0
    /\ failures' = 0
    /\ remaining' = << >>
    /\ pendingBefore' = pendingItems
    /\ attempts' = << >>
    /\ submitResult' = NoResult
    /\ UNCHANGED << pendingItems, logged, accepted >>

(* the logWork request for a pending item settled: successes++, or the item is
   pushed to remaining and failures++ *)
RetryLogWork(ok) ==
    /\ wpc = "retry"
    /\ entryIdx <= Len(pendingItems)
    /\ LET item == pendingItems[entryIdx]
       IN  IF ok
           THEN /\ logged' = Append(logged,
                                    logWork(item.issueId, item.minutes * 60,
                                            composeStarted(item.dayISO, RetryStartHour)))
                /\ successes' = successes + 1
                /\ UNCHANGED << remaining, failures >>
           ELSE /\ remaining' = Append(remaining, item)
                /\ failures' = failures + 1
                /\ UNCHANGED << logged, successes >>
    /\ attempts' = Append(attempts, [pos |-> entryIdx, ok |-> ok])
    /\ entryIdx' = entryIdx + 1
    /\ UNCHANGED << wpc, schedule, startHourUTC, pendingItems, pendingBefore, submitResult,
                    accepted, wcalls >>

(* mutant: remaining is pushed without emptying pending first *)
RetryReturn_notEmptied ==
    /\ wpc = "retry"
    /\ entryIdx > Len(pendingItems)
    /\ pendingItems' = pendingItems \o remaining
    /\ remaining' = << >>
    /\ wpc' = "idle"
    /\ submitResult' = [of |-> "retryPending", successes |-> successes,
                        failures |-> failures]
    /\ UNCHANGED << schedule, startHourUTC, entryIdx, successes, failures, pendingBefore,
                    attempts, logged, accepted, wcalls >>

(* this.pending.length = 0; this.pending.push(...remaining);
   return { successes, failures } *)
RetryReturn ==
    /\ wpc = "retry"
    /\ entryIdx > Len(pendingItems)
    /\ pendingItems' = remaining
    /\ remaining' = << >>
    /\ wpc' = "idle"
    /\ submitResult' = [of |-> "retryPending", successes |-> successes,
                        failures |-> failures]
    /\ UNCHANGED << schedule, startHourUTC, entryIdx, successes, failures, pendingBefore,
                    attempts, logged, accepted, wcalls >>

(* what the service does not touch *)
wfixed == << qvars, svars, pvars, avars, op, jpc, optConcurrency, initialConcurrency,
            targetConcurrency, savedBefore, jcalls, keyCount, optBatchSize, batches, kvars,
            zvars, gvars >>

WNext ==
    \/ \E sch \in Schedules : \E hour \in StartHours :
          SubmitBegin(sch, hour) /\ UNCHANGED wfixed
    \/ SubmitSkip /\ UNCHANGED wfixed
    \/ \E ok \in BOOLEAN : SubmitLogWork(ok) /\ UNCHANGED wfixed
    \/ SubmitReturn /\ UNCHANGED wfixed
    \/ RetryBegin /\ UNCHANGED wfixed
    \/ \E ok \in BOOLEAN : RetryLogWork(ok) /\ UNCHANGED wfixed
    \/ RetryReturn /\ UNCHANGED wfixed

WSpec == PStart /\ [][WNext]_vars

(***************************************************************************)
(* Properties of processQueueWithAdaptiveConcurrency                       *)
(***************************************************************************)

(* a wave has been awaited and one of its outcomes is a throttle failure *)
WaveHasThrottle ==
    qpc = "wave" /\ \E i \in Range(batch) : outcome[i] = "err" /\ isThrottleError(taskErr[i])
WaveHasFatal ==
    qpc = "wave" /\ \E i \in Range(batch) : outcome[i] = "err" /\ ~ isThrottleError(taskErr[i])
FatalTasks == {i \in Range(batch) : outcome[i] = "err" /\ ~ isThrottleError(taskErr[i])}

(* C1: when the run returns normally, results has length N and results[i] is
   the value of the one successful execution of task i; every task succeeded
   exactly once, its last execution is the successful one, and a task that
   succeeded is never pending again. *)
C1_ResultsByIndex ==
    /\ \A i \in Tasks :
         /\ succCount[i] <= 1
         /\ succCount[i] = 1 => i \notin Range(pending)
    /\ qpc = "returned" =>
         /\ ret.set
         /\ Len(ret.results) = taskCount
         /\ \A i \in Tasks :
              /\ succCount[i] = 1
              /\ ret.results[i] = [task |-> i, attempt |-> execCount[i]]

C1_Witness ==
    /\ qpc = "returned"
    /\ taskCount >= 3
    /\ hadThrottle
    /\ \E i \in Tasks : execCount[i] >= 3
    /\ \E i \in Tasks : execCount[i] = 1

(* C2: a wave with a non-throttle failure makes the run reject with the error
   of a task of that wave that failed that way; nothing is re-queued, no
   value is returned, and nothing runs after the rejection. *)
C2_FatalAborts ==
    [][ /\ (WaveHasFatal /\ qpc' # "wave") =>
              /\ qpc' = "threw"
              /\ thrown'.task \in FatalTasks
              /\ thrown'.err = taskErr[thrown'.task]
              /\ ~ isThrottleError(thrown'.err)
              /\ pending' = pending
              /\ ret' = NoRet
        /\ qpc = "threw" => UNCHANGED vars
        /\ (qpc # "threw" /\ qpc' = "threw") => WaveHasFatal ]_vars

C2_Witness ==
    /\ qpc = "threw"
    /\ \E i \in Tasks : results[i] # NoValue
    /\ \E i \in Tasks : execCount[i] = 0
    /\ ret = NoRet
    /\ thrown.err.status = 500

(* C3: a throttled wave at concurrency c sets the concurrency to
   max(1, floor(c * 0.75)) and, with a working store, the saved value is that
   concurrency whenever a later wave is running: 100 gives 75, 75 gives 56. *)
C3_BackoffPersisted ==
    [][ /\ (WaveHasThrottle /\ qpc' = "loop") =>
              /\ concurrency' = Max(1, (concurrency * 3) \div 4)
              /\ settings = "ok" => saved' = concurrency'
              /\ concurrency = 100 => concurrency' = 75
              /\ concurrency = 75 => concurrency' = 56
        /\ (qpc' = "wave" /\ hadThrottle' /\ settings = "ok") => saved' = concurrency' ]_vars

C3_Witness ==
    /\ qpc = "wave"
    /\ startConcurrency = 100
    /\ settings = "ok"
    /\ saved = 56
    /\ concurrency = 56

(* C4 as stated: every throttled wave leaves the concurrency strictly lower. *)
C4_AlwaysLowers ==
    [][ (WaveHasThrottle /\ qpc' = "loop") => concurrency' < concurrency ]_vars

(* C4 amended: a throttled wave at concurrency c > 1 leaves a strictly lower
   concurrency that is still at least 1; a throttled wave at concurrency 1
   leaves the concurrency at 1. *)
C4_LowersAboveOne ==
    [][ (WaveHasThrottle /\ qpc' = "loop") =>
              /\ concurrency' >= 1
              /\ concurrency > 1 => concurrency' < concurrency
              /\ concurrency = 1 => concurrency' = 1 ]_vars

C4_Witness ==
    /\ qpc = "loop"
    /\ startConcurrency = 2
    /\ hadThrottle
    /\ concurrency = 1
    /\ throttles >= 2

(* C5: pending keeps the original relative order with the throttled indices in
   front of the indices never attempted, and a wave that runs a task for the
   first time contains every task that was attempted and has not succeeded. *)
C5_ThrottledRetriedFirst ==
    /\ \A p, q \in 1 .. Len(pending) :
         p < q => /\ pending[p] < pending[q]
                  /\ ~ (execCount[pending[p]] = 0 /\ execCount[pending[q]] >= 1)
    /\ (qpc = "wave" /\ \E i \in Range(batch) : execCount[i] = 1) =>
         \A j \in Tasks : (execCount[j] >= 1 /\ succCount[j] = 0) => j \in Range(batch)

C5_Witness ==
    /\ qpc = "wave"
    /\ \E i \in Range(batch) : execCount[i] = 1
    /\ \E j \in Range(batch) : execCount[j] >= 2

(* C6: a throttle failure never rejects the run, and when no task fails with a
   non-throttle error (each task being throttled finitely often) the run
   eventually returns with a result for every task. *)
C6_ThrottleNeverSurfaces ==
    /\ [](qpc = "threw" => ~ isThrottleError(thrown.err))
    /\ ([](\A i \in Tasks : outcome[i] = "err" => isThrottleError(taskErr[i]))) =>
          <>(/\ qpc = "returned"
             /\ Len(ret.results) = taskCount
             /\ \A i \in Tasks : ret.results[i] # NoValue)

C6_Witness ==
    /\ qpc = "returned"
    /\ concurrency = 1
    /\ taskCount >= 2
    /\ \E i \in Tasks : execCount[i] >= 3
    /\ \A i \in Tasks : ret.results[i] # NoValue

(***************************************************************************)
(* Properties of the range cache of IssueProviderService                   *)
(***************************************************************************)

(* a request of the call failed without being retried, or the call rejected *)
FetchFailed == fatalSeen \/ callStatus = "rejected"

(* C7: a delta is merged into fetchedRanges, and openEndedStartISO moved, only
   when every page request and every detail batch of the delta succeeded: once
   a part of the call's fetch has failed, fetchedRanges and openEndedStartISO
   are what they were when the call started, during the call and after it. *)
C7_NoPartialCommit ==
    FetchFailed => (fetchedRanges = preRanges /\ openEndedStartISO = preOpen)

(* C8: a fatal error in a page request or in a detail batch, whatever the page
   index, makes the call reject: a call in which one occurred never resolves,
   and after the error no onUpdate and no onProgress is delivered. *)
C8_FatalRejectsCall ==
    [][ /\ (fatalSeen' /\ ppc # "idle" /\ ppc' = "idle") => callStatus' = "rejected"
        /\ (fatalSeen /\ fatalSeen') =>
              (updates' = updates /\ progressCalls' = progressCalls) ]_vars

(* the cached issues with activity of the user inside the period *)
ActiveKeys(cache, per) ==
    {cache[i].key : i \in {j \in DOMAIN cache :
        cache[j].act # 0 /\ per.start <= cache[j].act /\ cache[j].act <= per.end}}

(* the step is a call for a period inside the period of the call that
   resolved before it *)
ShrunkCall ==
    /\ ppc = "idle"
    /\ callStatus = "resolved"
    /\ calls' = calls + 1
    /\ period.start <= period'.start
    /\ period'.end <= period.end

(* C9: after a call for [a,b] resolved, a call for [a',b'] inside [a,b] sends
   no search request, leaves fetchedRanges, openEndedStartISO and the cache as
   they are, and (once the user is known) resolves at once with exactly the
   cached issues whose user activity lies in [a',b'], each as cached, all of
   them among the keys of the first call's result. *)
C9_ShrinkServedFromCache ==
    [][ ShrunkCall =>
          /\ requests' = 0
          /\ queries' = << >>
          /\ ppc' = "idle"
          /\ fetchedRanges' = fetchedRanges
          /\ openEndedStartISO' = openEndedStartISO
          /\ allFetchedIssues' = allFetchedIssues
          /\ callStatus' = "resolved" =>
                /\ KeysOf(callResult') = ActiveKeys(allFetchedIssues, period')
                /\ Range(callResult') \subseteq Range(allFetchedIssues)
                /\ Len(callResult') = Cardinality(KeysOf(callResult'))
                /\ KeysOf(callResult') \subseteq KeysOf(callResult) ]_vars

(* a second call, for ticks 3..4 of a covered two-day range, was served from
   the cache: it returned a cached issue and left another cached issue, active
   outside 3..4, out of the result *)
C9_Witness ==
    /\ calls = 2
    /\ ppc = "idle"
    /\ callStatus = "resolved"
    /\ period = [start |-> TicksPerDay + 1, end |-> 2 * TicksPerDay]
    /\ preRanges = << [start |-> 1, end |-> 2] >>
    /\ fetchedRanges = preRanges
    /\ requests = 0
    /\ Len(callResult) = 1
    /\ \E i \in DOMAIN allFetchedIssues :
          allFetchedIssues[i].act # 0 /\ allFetchedIssues[i].key \notin KeysOf(callResult)

(* C10: with open-ended coverage from day S1 (the start of the earliest window
   fetched), a call whose window starts at S2 >= S1 sends no search request
   whatever its end day, and a call with S2 < S1 issues exactly one phase-1
   query, updated >= S2 AND updated < S1, and no other query until it settles;
   a call that fetched and resolved leaves the coverage starting at its own
   start day. *)
C10_OpenEndedMonotone ==
    [][ /\ (ppc = "idle" /\ calls' = calls + 1 /\ openEndedStartISO # 0) =>
              IF toIsoDay(period'.start) >= openEndedStartISO
              THEN requests' = 0 /\ queries' = << >> /\ ppc' = "idle"
              ELSE \/ ppc' = "idle" /\ callStatus' = "rejected" /\ requests' = 0
                   \/ /\ ppc' = "first"
                      /\ queries' = << [lo |-> toIsoDay(period'.start),
                                        hi |-> openEndedStartISO] >>
        /\ ppc # "idle" => queries' = queries
        /\ (ppc # "idle" /\ ppc' = "idle" /\ callStatus' = "resolved") =>
              openEndedStartISO' = toIsoDay(period.start) ]_vars

(* a second call starting a day before the covered day 2 fetched with the one
   query updated >= 1 AND updated < 2 and resolved *)
C10_Witness ==
    /\ calls = 2
    /\ ppc = "idle"
    /\ callStatus = "resolved"
    /\ preOpen = 2
    /\ toIsoDay(period.start) = 1
    /\ queries = << [lo |-> 1, hi |-> 2] >>
    /\ requests > 1
    /\ openEndedStartISO = 1

(***************************************************************************)
(* Properties of the range helpers                                         *)
(***************************************************************************)
(* the days of a range, and of a list of ranges *)
DaysOf(r) == r.start .. r.end
DaysOfList(L) == UNION {DaysOf(L[i]) : i \in 1 .. Len(L)}

(* C11: for every universe U (start <= end) and every list C of covered
   ranges, the ranges subtractRanges(U, C) returns lie inside U, are pairwise
   disjoint and non-adjacent, contain no covered day and, together with the
   covered days of U, cover every day of U; the result is empty when U is
   fully covered and is the single range U when no covered range overlaps U *)
C11_SubtractCoverage ==
    "subtract" \in applied =>
        LET U == argUniverse
            C == DaysOfList(argCovered)
        IN  /\ \A i \in 1 .. Len(gaps) :
                  /\ U.start <= gaps[i].start
                  /\ gaps[i].start <= gaps[i].end
                  /\ gaps[i].end <= U.end
            /\ \A i, j \in 1 .. Len(gaps) :
                  i # j => \/ gaps[i].end + 1 < gaps[j].start
                           \/ gaps[j].end + 1 < gaps[i].start
            /\ DaysOfList(gaps) \cap C = {}
            /\ DaysOfList(gaps) \cup (C \cap DaysOf(U)) = DaysOf(U)
            /\ (DaysOf(U) \subseteq C) => gaps = << >>
            /\ (C \cap DaysOf(U) = {}) => gaps = << U >>

(* subtractRanges returned two gaps, cut out of the universe by two covered
   ranges given out of order *)
C11_Witness ==
    /\ "subtract" \in applied
    /\ Len(gaps) = 2
    /\ Len(argCovered) = 2
    /\ argCovered[1].start > argCovered[2].start
    /\ argCovered[1].end < argUniverse.end

(* C13: mergeRanges is idempotent: mergeRanges(mergeRanges(R)) = mergeRanges(R) *)
C13_MergeIdempotent ==
    "remerge" \in applied => mergedTwice = mergedOnce

(* mergeRanges folded two ranges given out of order, the second ending the
   day before the first starts, into one, and was applied again *)
C13_Witness ==
    /\ "remerge" \in applied
    /\ Len(argCovered) = 2
    /\ argCovered[1].start = nextDayIso(argCovered[2].end)
    /\ Len(mergedOnce) = 1

(***************************************************************************)
(* Properties of the range cache of IssueProviderService                   *)
(***************************************************************************)
(* sorted by start, every range with start <= end, consecutive ranges
   separated by at least one day *)
Normalised(L) ==
    /\ \A i \in 1 .. Len(L) : L[i].start <= L[i].end
    /\ \A i \in 1 .. Len(L) - 1 : L[i].end + 1 < L[i + 1].start

(* C12: after any sequence of getIssues / getIssuesByActivityStream calls
   fetchedRanges is sorted by start, every range has start <= end and two
   consecutive ranges neither overlap nor touch; the list mergeRanges returns
   when a delta is merged covers exactly the days of the list before and of
   the delta *)
C12_RangesNormalised ==
    [][ /\ Normalised(fetchedRanges')
        /\ fetchedRanges' # fetchedRanges =>
              /\ ppc = "merge"
              /\ DaysOfList(fetchedRanges') =
                    DaysOfList(fetchedRanges) \cup DaysOf(todo[di]) ]_vars

(* the second call left two ranges apart from each other *)
C12_Witness ==
    /\ calls = 2
    /\ callStatus = "resolved"
    /\ Len(fetchedRanges) = 2
    /\ preRanges # << >>

(* the call that ends asked for a period that ends the day before the single
   range fetched so far starts, as May 2023 does before June 2023 *)
MonthBefore ==
    /\ ppc # "idle"
    /\ Len(preRanges) = 1
    /\ preOpen = preRanges[1].start
    /\ nextDayIso(Universe(period).end) = preRanges[1].start

(* C14 as stated: fetching [2023-06-01, 2023-06-30] and then
   [2023-05-01, 2023-05-31] issues exactly one query for the second call,
   covering May only, and leaves the coverage set equal to the two separate
   ranges May and June, unmerged *)
C14_MayAndJuneApart ==
    [][ (MonthBefore /\ callStatus' = "resolved") =>
           /\ queries' = << [lo |-> Universe(period).start, hi |-> preRanges[1].start] >>
           /\ fetchedRanges' = << Universe(period), preRanges[1] >> ]_vars

(* C14 amended: the second call issues exactly one query, covering May only,
   and leaves the coverage set equal to the single range 2023-05-01..2023-06-30:
   May ends the day before June starts, so the two ranges are merged *)
C14_MayAndJuneMerged ==
    [][ (MonthBefore /\ callStatus' = "resolved") =>
           /\ queries' = << [lo |-> Universe(period).start, hi |-> preRanges[1].start] >>
           /\ fetchedRanges' =
                 << [start |-> Universe(period).start, end |-> preRanges[1].end] >> ]_vars

(* days 3..4 were fetched first, then days 1..2: one query, one range 1..4 *)
C14_Witness ==
    /\ calls = 2
    /\ callStatus = "resolved"
    /\ preRanges = << [start |-> 3, end |-> 4] >>
    /\ Universe(period) = [start |-> 1, end |-> 2]
    /\ Len(queries) = 1
    /\ fetchedRanges = << [start |-> 1, end |-> 4] >>

(* C15: openEndedStartISO, once set, is never cleared and never moves to a
   later day: a call leaves it at the minimum of its previous value and the
   requested start day when it performed a fetch, and unchanged otherwise *)
C15_OpenEndedOnlyEarlier ==
    [][ /\ openEndedStartISO # 0 =>
              (openEndedStartISO' # 0 /\ openEndedStartISO' <= openEndedStartISO)
        /\ openEndedStartISO' # openEndedStartISO =>
              /\ ppc = "merge"
              /\ requests > 0
              /\ callStatus' = "resolved"
              /\ openEndedStartISO' = toIsoDay(period.start)
        /\ (ppc = "merge" /\ callStatus' = "resolved") =>
              openEndedStartISO' =
                 IF openEndedStartISO = 0 THEN toIsoDay(period.start)
                 ELSE Min(openEndedStartISO, toIsoDay(period.start)) ]_vars

(* a second call moved the open-ended start from day 4 to day 2 *)
C15_Witness ==
    /\ calls = 2
    /\ callStatus = "resolved"
    /\ preOpen = 4
    /\ openEndedStartISO = 2
    /\ requests > 0

(***************************************************************************)
(* Properties of the entity cache of IssueProviderService                  *)
(***************************************************************************)
(* the record a list holds for key k: the last one, as a Map keeps it *)
LastRecord(list, k) ==
    LET at == {i \in 1 .. Len(list) : list[i].key = k}
    IN  list[CHOOSE i \in at : \A j \in at : j <= i]

(* C16: the entity cache holds at most one record per key, and after a call
   that re-fetched a key already present in the cache the cached record for
   that key is the newly fetched one (last-write-wins), in getIssues and in
   getIssuesByActivityStream *)
C16_CacheLastWriteWins ==
    [][ /\ \A i, j \in 1 .. Len(allFetchedIssues') :
              allFetchedIssues'[i].key = allFetchedIssues'[j].key => i = j
        /\ (ppc = "merge" /\ callStatus' = "resolved") =>
              \A k \in KeysOf(allFetchedIssues) \cap KeysOf(newlyFetched) :
                  LastRecord(allFetchedIssues', k) = LastRecord(newlyFetched, k) ]_vars

(***************************************************************************)
(* Properties of the persisted concurrency                                 *)
(***************************************************************************)
(* the step on which a phase-1 method, or fetchIssuesDetailedByKeys, returns
   after a run of the queue processor *)
PhaseOneReturns == jpc = "run" /\ jpc' = "done" /\ op \in {"minimal", "paged"}
DetailedReturns == jpc = "run" /\ jpc' = "done" /\ op = "detailed"

(* C17: after a phase-1 run that completes successfully the value persisted
   for the host is ADAPTIVE_DEFAULT_START_CONCURRENCY when no positive value
   was saved, and otherwise
   min(maxConcurrency, max(saved + minRampStep, floor(saved * rampUpRatio)));
   saved 20 gives 22; for every saved value below maxConcurrency the persisted
   value is strictly greater than saved, and it is never above maxConcurrency.
   (saved: the value the store holds when the run ends, which is the value it
   held when the call started if no wave was throttled; without a working
   store nothing is persisted) *)
C17_RampUpPersisted ==
    [][ PhaseOneReturns =>
          /\ ~ ret.hadThrottle => saved = savedBefore
          /\ settings # "ok" => saved' = saved
          /\ settings = "ok" =>
                /\ saved <= 0 => saved' = DefaultStartConcurrency
                /\ saved > 0 =>
                      saved' = Min(MaxConcurrency,
                                   Max(saved + RampUpMinStep, (saved * RampNum) \div RampDen))
                /\ saved = 20 => saved' = 22
                /\ (saved > 0 /\ saved < MaxConcurrency) => saved' > saved
                /\ saved' <= MaxConcurrency ]_vars

(* fetchIssuesMinimal with three pages, 20 saved, no throttling: 22 is saved *)
C17_Witness ==
    /\ op = "minimal"
    /\ jpc = "done"
    /\ settings = "ok"
    /\ taskCount = 2
    /\ ~ ret.hadThrottle
    /\ savedBefore = 20
    /\ saved = 22

(* C18: the ramp-up is applied only after a run without throttling: if any
   wave of a phase-1 run was throttled, the value persisted for the host when
   the run ends is the reduced concurrency written by the back-off, not a
   ramped-up value *)
C18_NoRampAfterThrottle ==
    [][ (PhaseOneReturns /\ ret.hadThrottle /\ settings = "ok") =>
           saved' = ret.finalConcurrency ]_vars

(* C19: when fetchIssuesDetailedByKeys completes after a run, it persists the
   processor's final reduced concurrency if any wave was throttled, and
   otherwise exactly the target concurrency it used: options.concurrency (at
   least 1) when given, else the starting concurrency; never a ramped-up value *)
C19_DetailedPersistsTarget ==
    [][ DetailedReturns =>
          /\ targetConcurrency =
                IF optConcurrency # Absent THEN Max(1, optConcurrency)
                ELSE initialConcurrency
          /\ settings # "ok" => saved' = saved
          /\ settings = "ok" =>
                /\ ret.hadThrottle =>
                      (saved' = ret.finalConcurrency /\ saved' <= targetConcurrency)
                /\ ~ ret.hadThrottle => saved' = targetConcurrency
                /\ (~ ret.hadThrottle /\ optConcurrency = Absent /\ savedBefore > 0) =>
                      saved' = savedBefore ]_vars

(* three keys in batches of one at options.concurrency 7, one batch throttled
   once: 5 is saved *)
C19_Witness ==
    /\ op = "detailed"
    /\ jpc = "done"
    /\ settings = "ok"
    /\ optConcurrency = 7
    /\ taskCount = 3
    /\ ret.hadThrottle
    /\ saved = 5

(* C20: getStartingConcurrencyInfo returns the saved value when a positive
   value is saved for the host, ADAPTIVE_DEFAULT_START_CONCURRENCY when none or
   a non-positive one is saved, and ADAPTIVE_FALLBACK_CONCURRENCY when there is
   no store or reading it throws; it never throws (the method that calls it
   goes on to its run), and 0 < fallback < defaultStart <= maxConcurrency *)
C20_StartingConcurrency ==
    [][ /\ (jpc # "run" /\ jpc' = "run") =>
              /\ (settings = "ok" /\ saved > 0) => initialConcurrency' = saved
              /\ (settings = "ok" /\ saved <= 0) =>
                    initialConcurrency' = DefaultStartConcurrency
              /\ settings \in {"absent", "throws"} =>
                    initialConcurrency' = FallbackConcurrency
        /\ (jcalls' # jcalls /\ op' = "detailed") => jpc' \in {"run", "done"}
        /\ 0 < FallbackConcurrency
        /\ FallbackConcurrency < DefaultStartConcurrency
        /\ DefaultStartConcurrency <= MaxConcurrency ]_vars

(* a store that throws on reading: the run starts at the fallback *)
C20_Witness ==
    /\ jpc = "run"
    /\ settings = "throws"
    /\ savedBefore = 20
    /\ initialConcurrency = FallbackConcurrency
    /\ concurrency = FallbackConcurrency

(***************************************************************************)
(* Further properties of processQueueWithAdaptiveConcurrency               *)
(***************************************************************************)
(* C21: a settings store that fails inside updateAdaptiveConcurrency does not
   fail the run: whatever the store does, a throttled wave without a fatal
   failure leaves the run in its loop with the reduced concurrency in memory,
   hadThrottle set and the throttled indices re-queued, exactly as with a
   working store; only the saved value differs (a failing or missing store
   keeps it), and the run returns the results, concurrency and hadThrottle it
   holds in memory. *)
C21_StoreFailureSwallowed ==
    [][ /\ (WaveHasThrottle /\ ~ WaveHasFatal /\ qpc' # "wave") =>
              /\ qpc' = "loop"
              /\ thrown' = NoThrown
              /\ hadThrottle'
              /\ concurrency' = NextConcurrency(concurrency)
              /\ pending' = Failed \o pending
              /\ \A i \in Tasks :
                    results'[i] = IF i \in Range(batch) /\ outcome[i] = "ok"
                                  THEN Val(i, execCount[i]) ELSE results[i]
              /\ saved' = IF settings = "ok" THEN concurrency' ELSE saved
        /\ (qpc # "returned" /\ qpc' = "returned") =>
              /\ ret' = [results |-> results, finalConcurrency |-> concurrency,
                         hadThrottle |-> hadThrottle, set |-> TRUE]
              /\ saved' = saved ]_vars

(* a run over at least two tasks whose store throws returned after a throttled
   wave: every result is there, the final concurrency is the reduced one and
   nothing was saved *)
C21_Witness ==
    /\ qpc = "returned"
    /\ settings = "throws"
    /\ taskCount >= 2
    /\ ret.hadThrottle
    /\ ret.finalConcurrency < Max(1, startConcurrency)
    /\ \A i \in Tasks : ret.results[i] # NoValue
    /\ saved = 0

(***************************************************************************)
(* Properties of the batching of fetchIssuesDetailedByKeys                 *)
(***************************************************************************)
(* a call of fetchIssuesDetailedByKeys has cut its keys into batches *)
DetailedBatched == op = "detailed" /\ jpc = "run"

(* 250 keys with options { concurrency: 1000, batchSize: 100 } *)
BatchesOf250By100 ==
    Batches([i \in 1 .. 250 |-> i], BatchSize(250, 100 * BatchSizeDen, 1000))

(* C22: a positive explicit options.batchSize is the batch size, otherwise the
   batch size is max(ceil(totalKeys / targetConcurrency), 1); the keys are cut
   in order into ceil(totalKeys / batchSize) consecutive batches, every batch
   but the last of batchSize keys, which together are the key list; 5 keys at
   target 10 give 5 batches of one key, 250 keys with explicit size 100 give 3
   batches, and an empty key list starts no run and persists nothing.
   (batch sizes are counted in units of 1/BatchSizeDen) *)
C22_BatchesPartitionKeys ==
    /\ DetailedBatched =>
          LET size == IF optBatchSize # Absent /\ optBatchSize > 0
                      THEN optBatchSize
                      ELSE BatchSizeDen * Max(CeilDiv(keyCount, targetConcurrency), 1)
          IN  /\ Len(batches) = CeilDiv(keyCount * BatchSizeDen, size)
              /\ \A b \in 1 .. Len(batches) - 1 : Len(batches[b]) * BatchSizeDen = size
              /\ Flat(batches) = [i \in 1 .. keyCount |-> i]
              /\ taskCount = Len(batches)
    /\ (DetailedBatched /\ keyCount = 5 /\ optBatchSize = Absent /\ targetConcurrency = 10) =>
          /\ Len(batches) = 5
          /\ \A b \in 1 .. 5 : Len(batches[b]) = 1
    /\ Len(BatchesOf250By100) = 3
    /\ (op = "detailed" /\ keyCount = 0 /\ jcalls > 0) =>
          /\ jpc = "done"
          /\ taskCount = 0
          /\ \A i \in Tasks : execCount[i] = 0
          /\ saved = savedBefore

(***************************************************************************)
(* Properties of the error classification                                  *)
(***************************************************************************)
ThrottleStatuses == {429, 503}

(* C23: a failed request counts as a throttle failure exactly when its
   response status is 429 or 503: when a wave is reconciled, the tasks put
   back for a retry are those that failed with one of these statuses, and a
   failure with any other status makes the run reject with the error of such a
   task, nothing being retried. *)
C23_ThrottleIffStatus ==
    [][ (qpc = "wave" /\ qpc' # "wave") =>
          LET failedTasks == {i \in Range(batch) : outcome[i] = "err"}
              others == {i \in failedTasks : taskErr[i].status \notin ThrottleStatuses}
          IN  /\ others # {} =>
                    /\ qpc' = "threw"
                    /\ thrown'.task \in others
                    /\ pending' = pending
              /\ others = {} =>
                    /\ qpc' = "loop"
                    /\ \A i \in failedTasks : i \in Range(pending') ]_vars

(***************************************************************************)
(* Properties of the progress and of the updates of the stream             *)
(***************************************************************************)
(* C24: when a call of getIssuesByActivityStream with totalBatches > 0 has
   resolved, the last snapshot handed to onProgress has remainingBatches = 0
   and etaSeconds = 0 (not null, not a positive number). *)
C24_FinalEtaZero ==
    (mode = "stream" /\ callStatus = "resolved" /\ totalBatches > 0) =>
        /\ progressCalls > 0
        /\ lastProgress.totalBatches = totalBatches
        /\ lastProgress.remainingBatches = 0
        /\ lastProgress.etaSeconds = 0

(* a stream call fetched and resolved, and no first page held an issue *)
NoCandidates ==
    /\ mode = "stream"
    /\ callStatus = "resolved"
    /\ requests > 0
    /\ totalBatches = 0

(* C25 as stated: when totalBatches is 0 for a stream call that fetched,
   onProgress is never invoked and the call resolves with an empty result. *)
C25_NoCandidatesEmptyResult ==
    NoCandidates => (progressCalls = 0 /\ callResult = << >>)

(* C25 amended: when totalBatches is 0 for a stream call that fetched, neither
   onProgress nor onUpdate is invoked and the call resolves with the cached
   issues that are relevant to the period, each once and as cached; the result
   is empty when the cache holds no such issue. *)
C25_NoCandidatesCacheView ==
    NoCandidates =>
        /\ progressCalls = 0
        /\ updates = 0
        /\ processedBatches = 0
        /\ KeysOf(callResult) = ActiveKeys(allFetchedIssues, period)
        /\ Range(callResult) \subseteq Range(allFetchedIssues)
        /\ Len(callResult) = Cardinality(KeysOf(callResult))
        /\ ActiveKeys(allFetchedIssues, period) = {} => callResult = << >>

(* the second call widened the period by an earlier day whose search found
   nothing: it resolved with a cached issue, and another cached issue without
   activity of the user stayed out of the result *)
C25_Witness ==
    /\ NoCandidates
    /\ calls = 2
    /\ Len(queries) = 1
    /\ callResult # << >>
    /\ Len(callResult) < Len(allFetchedIssues)

(* the list is ordered by the user's last activity, latest first, and every
   entry has activity of the user inside the period *)
SortedByActivity(list, per) ==
    /\ \A i, j \in DOMAIN list : i < j => list[i].act >= list[j].act
    /\ \A i \in DOMAIN list :
          list[i].act # 0 /\ per.start <= list[i].act /\ list[i].act <= per.end

(* the keys of the records with activity of the user inside the period *)
RelevantKeys(recs, per) ==
    {recs[i].key : i \in {j \in DOMAIN recs :
        recs[j].act # 0 /\ per.start <= recs[j].act /\ recs[j].act <= per.end}}

(* the period of the call was fully covered when the call started *)
FullyCovered == subtractRanges(Universe(period), preRanges) = << >>

(* C26: every list the stream hands to onUpdate is sorted by the user's last
   activity, latest first, holds no key twice, and holds exactly the cached
   issues relevant to the period and the relevant issues of the detail batches
   received so far; when the call resolves after emitting, it returns the last
   list emitted; a call for a fully covered period emits exactly one update,
   the cache view, and sends no request. *)
C26_UpdatesSortedAndComplete ==
    /\ (mode = "stream" /\ updates > 0) =>
          /\ SortedByActivity(lastUpdate, period)
          /\ Len(lastUpdate) = Cardinality(KeysOf(lastUpdate))
    /\ (mode = "stream" /\ updates > 0 /\ ppc # "idle") =>
          KeysOf(lastUpdate) = ActiveKeys(allFetchedIssues, period)
                                 \cup RelevantKeys(newlyFetched, period)
    /\ (mode = "stream" /\ updates > 0 /\ callStatus = "resolved") =>
          callResult = lastUpdate
    /\ (mode = "stream" /\ FullyCovered /\ callStatus = "resolved") =>
          /\ updates = 1
          /\ requests = 0
          /\ KeysOf(lastUpdate) = ActiveKeys(allFetchedIssues, period)

(* in its second call the stream has emitted a list of two issues: the first
   came with a detail batch and was inserted in front of the second, which was
   seeded from the cache *)
C26_Witness ==
    /\ mode = "stream"
    /\ calls = 2
    /\ ppc # "idle"
    /\ updates >= 1
    /\ Len(lastUpdate) = 2
    /\ lastUpdate[1].key \in KeysOf(newlyFetched)
    /\ lastUpdate[2].key \notin KeysOf(newlyFetched)
    /\ lastUpdate[1].act > lastUpdate[2].act

(***************************************************************************)
(* Properties of the waves of processQueueWithAdaptiveConcurrency          *)
(***************************************************************************)
(* the tasks whose execution, or whose onItem callback, has not settled *)
InFlight == {i \in Tasks : outcome[i] \in {"running", "item"}}

(* C27: a wave is exactly the first min(concurrency, |pending|) indices of
   pending; at no moment are more than concurrency tasks of the run in flight,
   and all of them belong to the current wave; task factories are invoked only
   when a wave starts, and a wave starts only when every task of the wave
   before it has settled. *)
C27_WaveBounded ==
    /\ [](/\ Cardinality(InFlight) <= concurrency
          /\ InFlight \subseteq Range(batch)
          /\ Len(batch) <= concurrency
          /\ qpc # "wave" => InFlight = {} /\ batch = << >>)
    /\ [][ /\ (qpc # "wave" /\ qpc' = "wave") =>
                 /\ batch' = Take(pending, Min(concurrency, Len(pending)))
                 /\ Len(batch') >= 1
                 /\ pending = batch' \o pending'
                 /\ InFlight = {}
                 /\ InFlight' = Range(batch')
           /\ (execCount' # execCount) =>
                 /\ (qpc # "wave" /\ qpc' = "wave")
                 /\ \A i \in Tasks :
                       execCount'[i] = IF i \in Range(batch') THEN execCount[i] + 1
                                       ELSE execCount[i]
           /\ (qpc = "wave" /\ qpc' # "wave") =>
                 \A i \in Range(batch) : outcome[i] \in {"ok", "err"} ]_vars

(* a later wave of a run whose concurrency was reduced to two: two tasks in the
   wave, one of them settled and one in flight, and tasks still pending *)
C27_Witness ==
    /\ qpc = "wave"
    /\ hadThrottle
    /\ concurrency = 2
    /\ Len(batch) = 2
    /\ Len(pending) >= 1
    /\ Cardinality(InFlight) = 1

(* C28: onItem is invoked once for each task, on the step its execution
   succeeds, and never for a failed attempt; when the outcomes of a wave are
   classified every success of the wave has been delivered and its callback
   has settled, so the successes of a wave with throttled tasks are delivered
   before any retry starts; a run that returns has delivered every task once. *)
C28_ItemOncePerSuccess ==
    /\ [](\A i \in Tasks :
            /\ itemCalls[i] = IF hasOnItem THEN succCount[i] ELSE 0
            /\ itemCalls[i] <= 1)
    /\ [](qpc = "returned" /\ hasOnItem => \A i \in Tasks : itemCalls[i] = 1)
    /\ [][ /\ \A i \in Tasks :
                 /\ itemCalls'[i] # itemCalls[i] =>
                       /\ outcome[i] = "running"
                       /\ succCount'[i] = succCount[i] + 1
                       /\ itemCalls'[i] = itemCalls[i] + 1
                 /\ (outcome[i] = "running" /\ outcome'[i] = "err") =>
                       itemCalls'[i] = itemCalls[i]
           /\ (qpc = "wave" /\ qpc' # "wave") =>
                 \A i \in Range(batch) :
                    /\ outcome[i] # "item"
                    /\ (outcome[i] = "ok" /\ hasOnItem) => itemCalls[i] = 1
                    /\ outcome[i] = "err" => itemCalls[i] = 0 ]_vars

(* a wave with a success and a throttled task was reconciled: the success has
   been delivered to onItem, the throttled task waits for its retry *)
C28_Witness ==
    /\ qpc = "loop"
    /\ hasOnItem
    /\ hadThrottle
    /\ \E i \in Tasks : itemCalls[i] = 1 /\ results[i] # NoValue
    /\ \E j \in Range(pending) : execCount[j] = 1 /\ itemCalls[j] = 0
    /\ \A i \in Tasks : execCount[i] <= 1

(* C29: within one run the concurrency is at least 1 and never increases;
   hadThrottle never goes back to false and, whenever the loop is at its head
   or the run has returned, is true exactly when some wave so far contained a
   throttle failure; while hadThrottle is false the concurrency, and with it
   the finalConcurrency that is returned, is max(1, startConcurrency). *)
C29_ConcurrencyMonotone ==
    /\ [](/\ concurrency >= 1
          /\ concurrency <= Max(1, startConcurrency)
          /\ ~ hadThrottle => concurrency = Max(1, startConcurrency)
          /\ hadThrottle => throttles > 0
          /\ qpc \in {"loop", "returned"} => (hadThrottle <=> throttles > 0)
          /\ qpc = "returned" =>
                /\ ret.hadThrottle = hadThrottle
                /\ ret.finalConcurrency = concurrency
                /\ ~ ret.hadThrottle => ret.finalConcurrency = Max(1, startConcurrency))
    /\ [][ /\ concurrency' <= concurrency
           /\ hadThrottle => hadThrottle'
           /\ (concurrency' # concurrency \/ hadThrottle' # hadThrottle) =>
                 /\ Failed # << >>
                 /\ hadThrottle'
                 /\ concurrency' = NextConcurrency(concurrency) ]_vars

(* a run started with concurrency 3 was throttled in two waves and returned
   with the concurrency at its floor of 1 *)
C29_Witness ==
    /\ qpc = "returned"
    /\ ret.hadThrottle
    /\ throttles >= 2
    /\ startConcurrency = 3
    /\ ret.finalConcurrency = 1

(* C30: when the outcomes of a wave are classified and the wave had a throttle
   failure, the reduced concurrency is written to a working settings store on
   that step, whether or not the wave also had a fatal failure. *)
C30_ThrottlePersisted ==
    [][ ( /\ qpc = "wave"
          /\ qpc' # "wave"
          /\ settings = "ok"
          /\ \E i \in Range(batch) : IsThrottled(i) ) =>
        saved' = NextConcurrency(concurrency) ]_vars

(* the same for the waves without a fatal failure *)
ThrottlePersistedNoFatal ==
    [][ ( /\ qpc = "wave"
          /\ qpc' # "wave"
          /\ settings = "ok"
          /\ FirstFatalPos = 0
          /\ \E i \in Range(batch) : IsThrottled(i) ) =>
        saved' = NextConcurrency(concurrency) ]_vars

(* the attempt of batch i has left its page loop by a break *)
LoopBroke(i) == chunkPc[i] \in {"emit", "emitted", "done"}

(* the endpoint ends the page loop: it declares a total, or it honours startAt
   and so returns an empty page in the end *)
EndpointEndsLoop == srvDeclaresTotal \/ srvMode = "paged"

(* C31: within one detail batch the requests go out with startAt advanced by
   the number of items received so far, until a page is empty or the items
   collected reach the declared total; against an endpoint that honours
   startAt, capped below the batch's key count or not, the batch result holds
   every matching item exactly once, in order; and the loop ends, after at
   most one request more than there are items, whenever the endpoint declares
   a total or returns an empty page in the end. *)
C31_BatchPaginates ==
    /\ [](\A i \in DOMAIN batches :
            /\ chunkPc[i] = "loop" => chunkStartAt[i] = Len(chunkCollected[i])
            /\ (LoopBroke(i) /\ srvMode = "paged") => chunkCollected[i] = ChunkItems(i)
            /\ (LoopBroke(i) /\ srvDeclaresTotal) =>
                  Len(chunkCollected[i]) >= Len(ChunkItems(i))
            /\ EndpointEndsLoop => chunkRequests[i] <= Len(ChunkItems(i)) + 1)
    /\ [][ \A i \in Chunks :
             (chunkRequests'[i] = chunkRequests[i] + 1) =>
                /\ chunkPc[i] = "loop"
                /\ LET got == Len(chunkCollected'[i]) - Len(chunkCollected[i])
                   IN  /\ got >= 0
                       /\ chunkPc'[i] = "loop" => chunkStartAt'[i] = chunkStartAt[i] + got
                       /\ chunkPc'[i] = "emit" <=>
                             \/ got = 0
                             \/ chunkTotal'[i] # Absent /\
                                  Len(chunkCollected'[i]) >= chunkTotal'[i] ]_vars
    /\ \A i \in Chunks :
          (chunkPc[i] = "loop" /\ EndpointEndsLoop) ~> (chunkPc[i] # "loop")

(* a batch of three keys against an endpoint that puts one issue in a response
   and declares no total: four requests, the three issues once each *)
C31_Witness ==
    \E i \in Tasks :
        /\ chunkPc[i] = "done"
        /\ srvMode = "paged"
        /\ srvCap = 1
        /\ ~ srvDeclaresTotal
        /\ Len(batches[i]) = 3
        /\ chunkCollected[i] = << 1, 2, 3 >>
        /\ chunkRequests[i] = 4

(* the loop ends against every endpoint *)
LoopAlwaysEnds == \A i \in Chunks : (chunkPc[i] = "loop") ~> (chunkPc[i] # "loop")

(* C32: onBatch is invoked at most once for a batch in the whole call: on a
   step of an attempt whose page loop has ended, before the task resolves, and
   with the items that attempt collected; an attempt that fails, after some
   pages or none, has invoked it zero times, so a batch that is retried is
   emitted once, by the attempt that succeeds. *)
C32_OnBatchOnce ==
    /\ [](\A i \in Chunks :
            /\ onBatchCalls[i] <= 1
            /\ onBatchCalls[i] = 1 <=>
                  /\ hasOnBatch
                  /\ chunkPc[i] \in {"emitted", "done"}
                  /\ chunkCollected[i] # << >>
            /\ onBatchCalls[i] = 1 => emitted[i] = chunkCollected[i]
            /\ chunkPc[i] \in {"loop", "emit", "failed"} => onBatchCalls[i] = 0)
    /\ [][ \A i \in Chunks :
             /\ onBatchCalls'[i] # onBatchCalls[i] =>
                   /\ chunkPc[i] = "emit"
                   /\ outcome[i] = "running"
                   /\ outcome'[i] = "running"
                   /\ succCount[i] = 0
                   /\ emitted'[i] = chunkCollected[i]
             /\ (i \in Tasks /\ succCount'[i] # succCount[i]) =>
                   /\ chunkPc[i] = "emitted"
                   /\ onBatchCalls'[i] = onBatchCalls[i] ]_vars

(* a batch of three keys, fetched one issue per response, was throttled in its
   first attempt and emitted once, whole, by its second *)
C32_Witness ==
    \E i \in Tasks :
        /\ hasOnBatch
        /\ srvCap = 1
        /\ srvMode = "paged"
        /\ execCount[i] = 2
        /\ chunkPc[i] = "done"
        /\ onBatchCalls[i] = 1
        /\ emitted[i] = << 1, 2, 3 >>

(* an attempt was throttled after it had received a page: nothing was emitted *)
ThrottledAfterPage ==
    \E i \in Tasks :
        /\ hasOnBatch
        /\ chunkPc[i] = "failed"
        /\ isThrottleError(taskErr[i])
        /\ Len(chunkCollected[i]) >= 1
        /\ onBatchCalls[i] = 0

(* the offsets pageSize, 2 pageSize, ... strictly below total *)
OffsetsBelow(pageSize, total) == {k * pageSize : k \in {j \in 1 .. total : j * pageSize < total}}

(* C33: phase 1 and the legacy fetchIssues take the total and the page size
   from the first response (the declared maxResults when there is one, not the
   size asked for): when the first page holds at least total issues no task is
   made and no further request goes out; otherwise there is one task for each
   offset pageSize, 2 pageSize, ... strictly below total, in rising order,
   each requested once in a call that is not throttled and resolved once in
   every call that returns; fetchIssuesMinimal and fetchIssues return the
   first page followed by the other pages in offset order, and
   fetchIssuesMinimalPaged the same pages. *)
C33_PagePlan ==
    LET total == FirstTotal(firstLen, respTotal)
        pageSize == FirstPageSize(respMaxResults)
        firstPage == IF firstLen > 0 THEN << 0 >> ELSE << >>
    IN  [](op \in {"minimal", "paged", "legacy"} =>
            /\ firstLen >= total =>
                  /\ starts = << >>
                  /\ taskCount = 0
                  /\ jpc # "run"
                  /\ jpc = "done" => allPages = firstPage
            /\ (firstLen < total /\ jpc # "first") =>
                  /\ taskCount = Len(starts)
                  /\ \A i \in DOMAIN starts : starts[i] = i * pageSize
                  /\ Range(starts) = OffsetsBelow(pageSize, total)
            /\ jpc = "done" =>
                  /\ \A i \in Tasks : succCount[i] = 1
                  /\ throttles = 0 => \A i \in Tasks : execCount[i] = 1
                  /\ op \in {"minimal", "legacy"} => allPages = firstPage \o starts
                  /\ Len(allPages) = Len(firstPage) + Len(starts)
                  /\ Range(allPages) = Range(firstPage) \cup Range(starts))

(* fetchIssuesMinimal asked for 1000 issues, was told maxResults 1 and total 4,
   was throttled once and returned the four pages in offset order *)
C33_Witness ==
    /\ op = "minimal"
    /\ jpc = "done"
    /\ firstLen = 1
    /\ respMaxResults = 1
    /\ respTotal = 4
    /\ throttles = 1
    /\ allPages = << 0, 1, 2, 3 >>

(* fetchIssues returned the two pages of a total of 4 in offset order *)
LegacyReturned ==
    /\ op = "legacy"
    /\ jpc = "done"
    /\ respMaxResults = 2
    /\ allPages = << 0, 2 >>
    /\ respTotal = 4

(* fetchIssuesMinimalPaged returned pages out of offset order *)
PagedOutOfOrder == op = "paged" /\ jpc = "done" /\ allPages = << 0, 2, 1 >>

(* the first page of a delta of the stream arrived and was handed to the page
   callback *)
StreamFirstPage == mode = "stream" /\ ppc = "first" /\ ppc' \in {"page0", "merge"}

(* C34: when the first page of a delta of the stream arrives, totalBatches
   grows by ceil(serverTotal / serverPageSize), the number of pages the server
   cuts the delta into, and when that is positive a snapshot with
   processedBatches unchanged and remainingBatches = totalBatches -
   processedBatches is handed to onProgress on the same step, before any
   detail batch of the delta. *)
C34_TotalBatchesFromServerTotal ==
    [][ StreamFirstPage =>
          /\ totalBatches' = totalBatches + Len(pages')
          /\ processedBatches' = processedBatches
          /\ Len(pages') > 0 =>
                /\ progressCalls' = progressCalls + 1
                /\ lastProgress' = BaselineSnapshot(processedBatches, totalBatches')
                /\ lastProgress'.remainingBatches = totalBatches' - processedBatches ]_vars

(* what the first page adds is ceil(page.length / pageSize): 1 for a page that
   holds an issue, whatever the total *)
FirstPageCountsOne ==
    [][ StreamFirstPage =>
          /\ totalBatches' = totalBatches + (IF Len(pages') > 0 THEN 1 ELSE 0)
          /\ processedBatches' = processedBatches
          /\ Len(pages') > 0 =>
                /\ progressCalls' = progressCalls + 1
                /\ lastProgress' = BaselineSnapshot(processedBatches, totalBatches')
                /\ lastProgress'.remainingBatches = totalBatches' - processedBatches ]_vars

(* C35: the measurement window of the stream's estimator opens before the
   detail batches are all complete: a call that processed two or more batches
   and resolved has produced a measured average per batch, i.e. some batch
   completed with phase1Done set and its snapshot carried a measured ETA. *)
C35_MeasuredEtaReached ==
    (mode = "stream" /\ callStatus = "resolved" /\ totalBatches > 0 /\ processedBatches >= 2) =>
        avgMeasured

(* phase1Done is set only by the step that resolves the call, after the last
   batch: every batch snapshot is a baseline one and no average is ever
   measured *)
WindowOpensAtTheEnd ==
    /\ [](/\ ~ avgMeasured
          /\ phase1Done => callStatus = "resolved"
          /\ lastProgress.etaSeconds # Measured)
    /\ [][ processedBatches' = processedBatches + 1 =>
             /\ ~ phase1Done
             /\ totalBatches > 0 =>
                   lastProgress' = BaselineSnapshot(processedBatches', totalBatches) ]_vars

(* a stream call processed two batches and resolved *)
TwoBatchesProcessed ==
    mode = "stream" /\ callStatus = "resolved" /\ totalBatches > 0 /\ processedBatches >= 2

(* C36: every snapshot handed to onProgress while no measured average exists
   carries etaSeconds = remainingBatches * ETA_INITIAL_SECONDS_PER_BATCH, a
   number and never null; in particular no snapshot with remainingBatches > 0
   has a null ETA. *)
C36_BaselineEtaNeverNull ==
    (progressCalls > 0 /\ ~ avgMeasured) =>
        /\ lastProgress.etaSeconds # Null
        /\ lastProgress.etaSeconds = lastProgress.remainingBatches * EtaInitialSecondsPerBatch

(* the snapshots before the closing one are baseline snapshots *)
BatchSnapshotsBaseline ==
    (progressCalls > 0 /\ callStatus # "resolved") =>
        lastProgress.etaSeconds = lastProgress.remainingBatches * EtaInitialSecondsPerBatch

(* the search requests of a getIssues call that are in flight: the page requests
   of the wave of fetchIssuesMinimalPaged and the batch request of every
   fetchIssuesDetailedByKeys call started by the page callback *)
InFlightPages == Cardinality({i \in Tasks : outcome[i] = "running"})
InFlightDetails == Cardinality({p \in DOMAIN pageDetail : pageDetail[p] = "running"})

(* the highest concurrency any of the running queue runs works with *)
RunningCeiling ==
    LET cs == {concurrency} \cup
              {pageRun[p].concurrency : p \in {q \in DOMAIN pageDetail : pageDetail[q] = "running"}}
    IN  CHOOSE c \in cs : \A d \in cs : d <= c

(* C37: during a pipelined getIssues call the search requests in flight, phase-1
   pages plus phase-2 batches, never exceed the current concurrency ceiling. *)
C37_InFlightBounded ==
    (mode = "pipelined" /\ ppc = "pages") =>
        InFlightPages + InFlightDetails <= RunningCeiling

(* each queue run keeps to its own ceiling: the page wave to the concurrency of
   the page run, every detail call started so far to its one batch request
   (batchSize = pageSize) *)
EachRunBounded ==
    (mode = "pipelined" /\ ppc = "pages") =>
        /\ InFlightPages <= concurrency
        /\ InFlightDetails <= Len(promiseOrder)

(* a page request and the detail batch of an earlier page are in flight together *)
PageAndDetailInFlight ==
    mode = "pipelined" /\ ppc = "pages" /\ InFlightPages >= 1 /\ InFlightDetails >= 1

(* C38: if a request was throttled during a getIssues / getIssuesByActivityStream
   call, the concurrency persisted for the host when the call ends is not
   higher than the lowest reduced value persisted during the call. *)
C38_BackoffSurvivesCall ==
    (ppc = "idle" /\ callStatus \in {"resolved", "rejected"} /\ lowestReduced > 0) =>
        saved <= lowestReduced

(* a call in which a reduced concurrency was persisted has ended *)
ThrottledCallEnded ==
    ppc = "idle" /\ callStatus \in {"resolved", "rejected"} /\ lowestReduced > 0

(* the writes that raise the persisted value above the back-off of the call:
   the ramp-up after the page run and the closing write of a detail call that
   was not throttled itself *)
BackoffOverwritten ==
    [][ (lowestReduced > 0 /\ saved' > saved) =>
          \/ ppc = "pages" /\ qpc = "returned"
          \/ \E p \in DOMAIN pageDetail :
                /\ pageDetail[p] = "running"
                /\ ~ pageRun[p].hadThrottle
                /\ saved' = pageRun[p].target ]_vars

(* the marker is unset with nothing fetched, or it is the start of the first
   fetched range *)
MarkerLeadsRanges ==
    \/ openEndedStartISO = 0 /\ fetchedRanges = << >>
    \/ fetchedRanges # << >> /\ openEndedStartISO = fetchedRanges[1].start

(* C39: starting from an empty cache, after every completed call either
   openEndedStartISO is unset and fetchedRanges is empty, or openEndedStartISO
   is the start of the first range of fetchedRanges; so each call issues at
   most one phase-1 query, for the leading gap that begins at the requested
   start, and every other gap of the request is skipped as covered by the
   marker. *)
C39_MarkerLeadsRanges ==
    /\ ppc = "idle" => MarkerLeadsRanges
    /\ Len(queries) <= 1
    /\ ppc # "idle" =>
          /\ Len(todo) = 1 /\ di = 1
          /\ todo[1].start = Universe(period).start
          /\ queries = << Jql(todo[1]) >>
          /\ \A j \in 1 .. Len(subtractRanges(Universe(period), preRanges)) :
                LET d == subtractRanges(Universe(period), preRanges)[j]
                IN  d # todo[1] => (preOpen # 0 /\ d.start >= preOpen)

(* a call over fetched ranges with a gap between them has fetched its leading
   gap and skipped a later one *)
C39_Witness ==
    /\ ppc = "idle" /\ callStatus = "resolved" /\ calls >= 2
    /\ Len(queries) = 1
    /\ Len(subtractRanges(Universe(period), preRanges)) >= 2
    /\ Len(fetchedRanges) >= 1

(* the positions of a list that satisfy Test, in order *)
PositionsWhere(list, Test(_)) ==
    SelectSeq([i \in 1 .. Len(list) |-> i], LAMBDA i : Test(list[i]))

AttemptedPositions == [j \in 1 .. Len(attempts) |-> attempts[j].pos]
FailedPositions ==
    [j \in 1 .. Len(SelectSeq(attempts, LAMBDA a : ~ a.ok)) |->
        SelectSeq(attempts, LAMBDA a : ~ a.ok)[j].pos]
Succeeded == Len(SelectSeq(attempts, LAMBDA a : a.ok))

Occurrences(list, x) == Cardinality({i \in DOMAIN list : list[i] = x})

(* the worklogs Jira holds for a schedule entry, whatever their hour *)
WorklogsFor(e) ==
    Cardinality({i \in DOMAIN logged :
                    /\ logged[i].issueId = e.issueId
                    /\ logged[i].started.day = e.dayISO
                    /\ logged[i].timeSpentSeconds = e.minutes * 60})

(* C40: submitSchedule attempts every entry with positive minutes exactly once
   and counts it as a success or appends it to pending and counts it as a
   failure; retryPending attempts each pending item once, removes exactly the
   items that succeeded and keeps the others in order, so successes + failures
   is the number of items pending before the call; over any sequence of calls
   no item is lost or duplicated: every entry ever attempted is a worklog in
   Jira or an item of pending, once. *)
C40_WorklogsConserved ==
    (wpc = "idle" /\ submitResult.of # "none") =>
        /\ submitResult.successes = Succeeded
        /\ submitResult.failures = Len(FailedPositions)
        /\ submitResult.of = "submitSchedule" =>
              /\ AttemptedPositions = PositionsWhere(schedule, LAMBDA e : e.minutes > 0)
              /\ pendingItems =
                    pendingBefore \o [j \in 1 .. Len(FailedPositions) |->
                                         schedule[FailedPositions[j]]]
        /\ submitResult.of = "retryPending" =>
              /\ AttemptedPositions = [i \in 1 .. Len(pendingBefore) |-> i]
              /\ pendingItems = [j \in 1 .. Len(FailedPositions) |->
                                    pendingBefore[FailedPositions[j]]]
              /\ submitResult.successes + submitResult.failures = Len(pendingBefore)
        /\ \A e \in ScheduleEntries :
              Occurrences(accepted, e) = WorklogsFor(e) + Occurrences(pendingItems, e)

(* a retry over two pending items of which the first succeeded and the second
   stayed *)
C40_Witness ==
    /\ wpc = "idle"
    /\ submitResult = [of |-> "retryPending", successes |-> 1, failures |-> 1]
    /\ Len(pendingBefore) = 2
    /\ pendingItems = << pendingBefore[2] >>
    /\ attempts = << [pos |-> 1, ok |-> TRUE], [pos |-> 2, ok |-> FALSE] >>

(* a submitSchedule call passed over an entry without positive minutes and had
   the other one refused *)
SubmitSkippedAndFailed ==
    /\ wpc = "idle"
    /\ submitResult = [of |-> "submitSchedule", successes |-> 0, failures |-> 1]
    /\ Len(schedule) = 2
    /\ schedule[1].minutes < 0

====
